---------------------------- MODULE Spec2Model ----------------------------
(***************************************************************************)
(* A model of standalone-js/xml.js (class Xml, the consolidated version).  *)
(*                                                                         *)
(* A JavaScript string is modelled as the sequence of its UTF-16 code      *)
(* units (integers), so that String.fromCharCode, \d and \w are computed   *)
(* on character codes the way the engine computes them.                    *)
(***************************************************************************)
EXTENDS Integers, Sequences, FiniteSets, TLC

VARIABLES
    arg,        \* codec: the value handed to the static function, [t, v]
    esc,        \* codec: the text returned by escape / escapeValue
    ret,        \* codec: what the last call returned or threw, [ok, v]
    call,       \* codec: the calls made so far, as one tag
    parent,     \* Node.#parent of every node (Unset: undefined)
    children,   \* Node.#children of every node
    last,       \* tree: the last add / remove call and what it returned
    data,       \* what every node carries: kind, content, type, attributes
    alloc,      \* parse: the number of nodes constructed so far
    parsers,    \* parse: the parsers of this session, in order
    buffer,     \* parse: the text that remains for the innermost loop
    stack,      \* parse: the Element.Parser.parse calls in progress, innermost last
    status,     \* parse: "running", "returned" or "thrown"
    failure,    \* parse: the error thrown
    result,     \* parse: the node Xml.parse returned (Unset: none)
    selected,   \* parse: the last dispatch, [parser, text, level]
    returned,   \* parse: the last parse call that returned, [parser, given, rest, level, node]
    source,     \* parse: the text the caller handed over
    start,      \* parse: for every node, the place in the source where its text begins
    config,     \* factory: the configuration, an entry for every name
    frames,     \* factory: the calls of resolve made so far, finished or not
    instance,   \* factory: for every name, the instance variable of its singleton wrapper
    objects     \* factory: what the wrapped factories have made, in order

codecVars == <<arg, esc, ret, call>>
heapVars == <<parent, children>>
treeVars == <<parent, children, last>>
parseVars ==
    <<data, alloc, parsers, buffer, stack, status, failure, result, selected, returned,
      source, start>>
factoryVars == <<config, frames, instance, objects>>
vars == <<codecVars, treeVars, parseVars, factoryVars>>

\* No factory has been made.
FactoryIdle ==
    /\ config = <<>>
    /\ frames = <<>>
    /\ instance = <<>>
    /\ objects = <<>>

(***************************************************************************)
(* Characters and string primitives                                        *)
(***************************************************************************)
Printable ==
    <<"#", "$", "%", "&", "APOS", "(", ")", "*", "+", ",", "-", ".", "/",
      "0", "1", "2", "3", "4", "5", "6", "7", "8", "9", ":", ";", "<", "=", ">", "?",
      "@", "A", "B", "C", "D", "E", "F", "G", "H", "I", "J", "K", "L", "M", "N", "O",
      "P", "Q", "R", "S", "T", "U", "V", "W", "X", "Y", "Z", "[", "\\", "]", "^", "_",
      "GRAVE", "a", "b", "c", "d", "e", "f", "g", "h", "i", "j", "k", "l", "m", "n", "o",
      "p", "q", "r", "s", "t", "u", "v", "w", "x", "y", "z", "{", "|", "}", "~">>

\* The code unit of an ASCII character (the quotes are DQ and APOS).
Ord(ch) ==
    IF ch = " " THEN 32
    ELSE IF ch = "!" THEN 33
    ELSE 34 + (CHOOSE i \in 1..Len(Printable) : Printable[i] = ch)

\* A string literal, written as the sequence of its characters.
Str(chars) == [i \in 1..Len(chars) |-> Ord(chars[i])]

DQ == 34
APOS == 39
LF == 10
CR == 13

Max(a, b) == IF a >= b THEN a ELSE b
Min(a, b) == IF a <= b THEN a ELSE b

\* String.prototype.slice(from, to) with non-negative arguments (0-based, to excluded).
Slice(s, from, to) == SubSeq(s, Min(from, Len(s)) + 1, Min(to, Len(s)))

\* String.prototype.slice(from).
SliceFrom(s, from) == Slice(s, from, Len(s))

\* String.prototype.startsWith(pat).
StartsWith(s, pat) == Len(s) >= Len(pat) /\ SubSeq(s, 1, Len(pat)) = pat

\* String.prototype.indexOf(pat): the 0-based index of the first occurrence, or -1.
IndexOf(s, pat) ==
    LET hits == {i \in 0..(Len(s) - Len(pat)) : StartsWith(SliceFrom(s, i), pat)}
    IN  IF hits = {} THEN -1 ELSE CHOOSE i \in hits : \A j \in hits : i <= j

\* String.prototype.replace(/pat/g, rep) for a literal, non-empty pattern:
\* left to right, non-overlapping, the replacement is not scanned again.
RECURSIVE ReplaceAll(_, _, _)
ReplaceAll(s, pat, rep) ==
    IF Len(s) < Len(pat) THEN s
    ELSE IF StartsWith(s, pat) THEN rep \o ReplaceAll(SliceFrom(s, Len(pat)), pat, rep)
    ELSE <<s[1]>> \o ReplaceAll(Tail(s), pat, rep)

\* Every concatenation of at most n of the given fragments.
RECURSIVE Texts(_, _)
Texts(frags, n) ==
    IF n = 0 THEN {<<>>}
    ELSE LET shorter == Texts(frags, n - 1)
         IN  shorter \cup {t \o f : t \in shorter, f \in frags}

RECURSIVE Concat(_)
Concat(ss) == IF ss = <<>> THEN <<>> ELSE Head(ss) \o Concat(Tail(ss))

\* Character classes of the regular expressions, as sets of code units.
Digits == 48..57
HexDigits == Digits \cup (65..70) \cup (97..102)
\* \w
WordChars == Digits \cup (65..90) \cup (97..122) \cup {Ord("_")}
\* \s (the characters of it that are below 256)
SpaceChars == {32, 9, LF, 11, 12, CR, 160}

\* The length of the longest prefix of s made of characters of class.
RECURSIVE SpanLen(_, _)
SpanLen(s, class) ==
    IF s # <<>> /\ s[1] \in class THEN 1 + SpanLen(Tail(s), class) ELSE 0

\* The length of the longest prefix of s made of characters outside class.
RECURSIVE SpanLenOutside(_, _)
SpanLenOutside(s, class) ==
    IF s # <<>> /\ s[1] \notin class THEN 1 + SpanLenOutside(Tail(s), class) ELSE 0

\* The entities of the codec.
AmpEntity == Str(<<"&", "a", "m", "p", ";">>)
LtEntity == Str(<<"&", "l", "t", ";">>)
GtEntity == Str(<<"&", "g", "t", ";">>)
QuotEntity == Str(<<"&", "q", "u", "o", "t", ";">>)
AposEntity == Str(<<"&", "a", "p", "o", "s", ";">>)
LfEntity == Str(<<"&", "#", "1", "0", ";">>)
CrEntity == Str(<<"&", "#", "1", "3", ";">>)

(***************************************************************************)
(* Xml.escape, Xml.escapeValue, Xml.unescape                               *)
(***************************************************************************)
\* escape with the ampersand replaced last
escapeAmpLast(text) ==
    ReplaceAll(ReplaceAll(ReplaceAll(text,
        Str(<<"<">>), LtEntity),
        Str(<<">">>), GtEntity),
        Str(<<"&">>), AmpEntity)

escape(text) ==
    ReplaceAll(ReplaceAll(ReplaceAll(text,
        Str(<<"&">>), AmpEntity),
        Str(<<"<">>), LtEntity),
        Str(<<">">>), GtEntity)

\* escapeValue without the call of escape
escapeValueQuotesOnly(value) ==
    ReplaceAll(ReplaceAll(ReplaceAll(ReplaceAll(value,
        <<DQ>>, QuotEntity),
        <<APOS>>, AposEntity),
        <<LF>>, LfEntity),
        <<CR>>, CrEntity)

escapeValue(value) ==
    ReplaceAll(ReplaceAll(ReplaceAll(ReplaceAll(escape(value),
        <<DQ>>, QuotEntity),
        <<APOS>>, AposEntity),
        <<LF>>, LfEntity),
        <<CR>>, CrEntity)

\* String.fromCharCode(n): ToUint16 of the number.
fromCharCode(n) == <<n % 65536>>

HexDigitValue(c) ==
    IF c \in Digits THEN c - 48 ELSE IF c >= 97 THEN c - 87 ELSE c - 55

\* Number(digits) (base 10) and parseInt(digits, 16) (base 16) for a string of digits.
RECURSIVE DigitsValue(_, _)
DigitsValue(d, base) ==
    IF d = <<>> THEN 0
    ELSE DigitsValue(SubSeq(d, 1, Len(d) - 1), base) * base + HexDigitValue(d[Len(d)])

\* basic.matchAll(/<prefix>(<class>+);/g): the matches from left to right, each
\* [full |-> the matched text, group |-> the digits].
RECURSIVE RefMatches(_, _, _)
RefMatches(s, prefix, class) ==
    IF s = <<>> THEN <<>>
    ELSE LET n == IF StartsWith(s, prefix)
                  THEN SpanLen(SliceFrom(s, Len(prefix)), class) ELSE 0
             end == Len(prefix) + n
         IN  IF n > 0 /\ Len(s) > end /\ s[end + 1] = Ord(";")
             THEN <<[full |-> SubSeq(s, 1, end + 1),
                     group |-> SubSeq(s, Len(prefix) + 1, end)]>>
                  \o RefMatches(SliceFrom(s, end + 1), prefix, class)
             ELSE RefMatches(Tail(s), prefix, class)

\* Object.entries(Object.fromEntries(matches)): one entry per distinct key, in
\* the order of the first match of each key.
RECURSIVE Entries(_)
Entries(ms) ==
    IF ms = <<>> THEN <<>>
    ELSE LET init == Entries(SubSeq(ms, 1, Len(ms) - 1))
             m    == ms[Len(ms)]
         IN  IF \E i \in 1..Len(init) : init[i].full = m.full
             THEN init ELSE Append(init, m)

\* The for-loop: the text of each entry is replaced everywhere in the current
\* string by the character its digits name.
RECURSIVE ReplaceRefs(_, _, _)
ReplaceRefs(s, es, base) ==
    IF es = <<>> THEN s
    ELSE ReplaceRefs(ReplaceAll(s, es[1].full, fromCharCode(DigitsValue(es[1].group, base))),
                     Tail(es), base)

DecPrefix == Str(<<"&", "#">>)
HexPrefix == Str(<<"&", "#", "x">>)

unescape(text) ==
    LET basic == ReplaceAll(ReplaceAll(ReplaceAll(ReplaceAll(text,
                     LtEntity, Str(<<"<">>)),
                     GtEntity, Str(<<">">>)),
                     QuotEntity, <<DQ>>),
                     AposEntity, <<APOS>>)
        dec   == ReplaceRefs(basic, Entries(RefMatches(basic, DecPrefix, Digits)), 10)
        hex   == ReplaceRefs(dec, Entries(RefMatches(dec, HexPrefix, HexDigits)), 16)
    IN  ReplaceAll(hex, AmpEntity, Str(<<"&">>))

(***************************************************************************)
(* Xml.Node: #parent, #children, add, remove                               *)
(***************************************************************************)
\* the nodes one run may construct
MaxNodes == 6
\* the nodes the tree caller edits
NumNodes == 3

Nodes == 1..MaxNodes
TreeNodes == 1..NumNodes
\* Xml.#unset, the value of #parent of a node that has no parent
Unset == 0
\* an argument of add that is not an instance of Xml.Node
NotANode == -1

\* this.#children.filter(child => child !== item)
RECURSIVE Filter(_, _)
Filter(seq, item) ==
    IF seq = <<>> THEN <<>>
    ELSE IF Head(seq) = item THEN Filter(Tail(seq), item)
    ELSE <<Head(seq)>> \o Filter(Tail(seq), item)

\* remove that clears the back-reference and keeps the child in the sequence
removeKeepsChild(h, this, item) ==
    IF h.parent[item] # this THEN h
    ELSE [parent   |-> [h.parent EXCEPT ![item] = Unset],
          children |-> h.children]

\* remove without the test of the parent
removeUnchecked(h, this, item) ==
    [parent   |-> [h.parent EXCEPT ![item] = Unset],
     children |-> [h.children EXCEPT ![this] = Filter(h.children[this], item)]]

\* this.remove(item), on the heap h = [parent, children]
remove(h, this, item) ==
    IF h.parent[item] # this THEN h
    ELSE [parent   |-> [h.parent EXCEPT ![item] = Unset],
          children |-> [h.children EXCEPT ![this] = Filter(h.children[this], item)]]

\* add that puts the item in front of the children
addInFront(h, this, item) ==
    IF item \notin Nodes THEN h
    ELSE LET d == IF h.parent[item] \in Nodes THEN remove(h, h.parent[item], item) ELSE h
         IN  [parent   |-> [d.parent EXCEPT ![item] = this],
              children |-> [d.children EXCEPT ![this] = <<item>> \o d.children[this]]]

\* this.add(item), on the heap h = [parent, children]
add(h, this, item) ==
    IF item \notin Nodes THEN h
    ELSE LET d == IF h.parent[item] \in Nodes THEN remove(h, h.parent[item], item) ELSE h
         IN  [parent   |-> [d.parent EXCEPT ![item] = this],
              children |-> [d.children EXCEPT ![this] = Append(d.children[this], item)]]

Heap == [parent |-> parent, children |-> children]

NoCall == [op |-> "none", this |-> Unset, item |-> Unset, from |-> Unset, ret |-> Unset]

\* Every node constructed, none attached.
InitTree ==
    /\ parent = [n \in Nodes |-> Unset]
    /\ children = [n \in Nodes |-> <<>>]
    /\ last = NoCall

\* this.add(item) for a node or for something that is not a node; returns this
Add(this, item) ==
    LET h == add(Heap, this, item)
    IN  /\ parent' = h.parent
        /\ children' = h.children
        /\ last' = [op |-> "add", this |-> this, item |-> item,
                    from |-> IF item \in Nodes THEN parent[item] ELSE Unset,
                    ret |-> this]

\* this.remove(item); returns this
Remove(this, item) ==
    LET h == remove(Heap, this, item)
    IN  /\ parent' = h.parent
        /\ children' = h.children
        /\ last' = [op |-> "remove", this |-> this, item |-> item,
                    from |-> parent[item], ret |-> this]

(***************************************************************************)
(* Xml.validateName                                                        *)
(***************************************************************************)
\* #namePattern, one character of it: [\w\.\-_:]
NameChars == WordChars \cup {Ord("."), Ord("-"), Ord("_"), Ord(":")}

\* the validator without its end anchor: ^[\w\.\-_:]+
nameValidatorUnanchored(s) == SpanLen(s, NameChars) >= 1

\* #nameValidator.test(s): ^[\w\.\-_:]+$
nameValidator(s) == Len(s) >= 1 /\ SpanLen(s, NameChars) = Len(s)

\* A JavaScript value: its typeof and, in v, its string conversion.
StringValue(s) == [t |-> "string", v |-> s]

Returned(value) == [ok |-> TRUE, v |-> value]
Thrown(message) == [ok |-> FALSE, v |-> StringValue(Str(message))]

\* No static function has been called.
NoValue == [ok |-> TRUE, v |-> [t |-> "undefined", v |-> <<>>]]

CodecIdle ==
    /\ arg = StringValue(<<>>)
    /\ esc = <<>>
    /\ ret = NoValue
    /\ call = "none"

UnparsableName == <<"U", "n", "p", "a", "r", "s", "a", "b", "l", "e">>

validateName(name) ==
    IF name.t # "string" \/ ~nameValidator(name.v)
    THEN Thrown(UnparsableName)
    ELSE Returned(name)

(***************************************************************************)
(* What a node carries besides its place in the tree                       *)
(***************************************************************************)
\* A plain object {}: its entries [key, value] in the order of Object.entries,
\* which is the order in which the keys were first set (no key here is an
\* array index).
NoAttrs == <<>>

Has(obj, key) == \E i \in 1..Len(obj) : obj[i].key = key

\* obj[key] for a key the object has
Get(obj, key) == obj[CHOOSE i \in 1..Len(obj) : obj[i].key = key].value

\* obj[key] = value on a plain object: a key it has keeps its place
Put(obj, key, value) ==
    IF Has(obj, key)
    THEN [obj EXCEPT ![CHOOSE i \in 1..Len(obj) : obj[i].key = key].value = value]
    ELSE Append(obj, [key |-> key, value |-> value])

Payload(kind, content, type, attrs) ==
    [kind |-> kind, content |-> content, type |-> type, attrs |-> attrs,
     names |-> <<>>, values |-> <<>>]

\* new Xml.Node()
NewNode == Payload("Node", <<>>, <<>>, NoAttrs)
\* new Xml.Text() etc., then item.content = content
NewContent(kind, content) == Payload(kind, content, <<>>, NoAttrs)

\* What a parse method gives: [node, remaining], or the error it throws.
Parsed(node, remaining) ==
    [ok |-> TRUE, error |-> "none", node |-> node, remaining |-> remaining]
Failed(error) ==
    [ok |-> FALSE, error |-> error, node |-> NewNode, remaining |-> <<>>]

(***************************************************************************)
(* More string primitives                                                  *)
(***************************************************************************)
\* String.prototype.trimStart()
trimStart(s) == SliceFrom(s, SpanLen(s, SpaceChars))

RECURSIVE trimEnd(_)
trimEnd(s) ==
    IF s # <<>> /\ s[Len(s)] \in SpaceChars THEN trimEnd(SubSeq(s, 1, Len(s) - 1)) ELSE s

\* String.prototype.trim()
trim(s) == trimEnd(trimStart(s))

\* new RegExp(`^${Xml.#namePattern}`).exec(s)?.[0], the empty text when there is no match
nameParser(s) == SubSeq(s, 1, SpanLen(s, NameChars))

(***************************************************************************)
(* Text, Comment, CData                                                    *)
(***************************************************************************)
Lt == Str(<<"<">>)
CommentOpen == Str(<<"<", "!", "-", "-">>)
CommentClose == Str(<<"-", "-", ">">>)
CDataOpen == Str(<<"<", "!", "[", "C", "D", "A", "T", "A", "[">>)
CDataClose == Str(<<"]", "]", ">">>)
MetadataOpen == Str(<<"<", "!">>)
DeclarationOpen == Str(<<"<", "?">>)
DeclarationClose == Str(<<"?", ">">>)

TextCanParse(text) == ~StartsWith(text, Lt)

\* parse that gives back the whole text when it holds no "<"
TextParseKeepsText(text) ==
    LET term      == IndexOf(text, Lt)
        content   == IF term < 0 THEN text ELSE Slice(text, 0, term)
        remaining == IF term < 0 THEN text ELSE SliceFrom(text, term)
    IN  Parsed(NewContent("Text", content), remaining)

\* parse that takes one character
TextParseOneChar(text) == Parsed(NewContent("Text", <<text[1]>>), Tail(text))

\* parse that takes the text to its end
TextParseToEnd(text) == Parsed(NewContent("Text", text), <<>>)

TextParse(text) ==
    LET term      == IndexOf(text, Lt)
        content   == IF term < 0 THEN text ELSE Slice(text, 0, term)
        remaining == IF term < 0 THEN <<>> ELSE SliceFrom(text, term)
    IN  Parsed(NewContent("Text", content), remaining)

CommentCanParse(text) == StartsWith(text, CommentOpen)

\* parse that keeps the content as it is written
CommentParseRaw(text) ==
    LET body      == SliceFrom(text, 4)
        end       == IndexOf(body, CommentClose)
        content   == IF end < 0 THEN body ELSE Slice(body, 0, end)
        remaining == IF end < 0 THEN <<>> ELSE SliceFrom(body, end + 3)
    IN  Parsed(NewContent("Comment", content), remaining)

CommentParse(text) ==
    LET body      == SliceFrom(text, 4)
        end       == IndexOf(body, CommentClose)
        content   == IF end < 0 THEN body ELSE Slice(body, 0, end)
        remaining == IF end < 0 THEN <<>> ELSE SliceFrom(body, end + 3)
    IN  Parsed(NewContent("Comment", unescape(content)), remaining)

CDataCanParse(text) == StartsWith(text, CDataOpen)

\* the end is looked for in the whole text, and an unterminated section keeps it whole
CDataParse(text) ==
    LET end       == IndexOf(text, CDataClose)
        content   == IF end < 0 THEN text ELSE Slice(text, 9, end)
        remaining == IF end < 0 THEN <<>> ELSE SliceFrom(text, end + 3)
    IN  Parsed(NewContent("CData", content), remaining)

(***************************************************************************)
(* Declaration                                                             *)
(***************************************************************************)
DefaultDeclarationType ==
    Str(<<"d", "e", "c", "l", "a", "r", "a", "t", "i", "o", "n">>)

\* \s*=\s*"([^"]*)" at the start of t: [len, value], len = 0 when it does not match
PairTail(t) ==
    LET eq == SpanLen(t, SpaceChars)
        q  == IF Len(t) > eq /\ t[eq + 1] = Ord("=")
              THEN eq + 1 + SpanLen(SliceFrom(t, eq + 1), SpaceChars) ELSE -1
        v  == IF q >= 0 /\ Len(t) > q /\ t[q + 1] = DQ
              THEN IndexOf(SliceFrom(t, q + 1), <<DQ>>) ELSE -1
    IN  IF v < 0 THEN [len |-> 0, value |-> <<>>]
        ELSE [len |-> q + 1 + v + 1, value |-> Slice(t, q + 1, q + 1 + v)]

\* (\S+)\s*=\s*"([^"]*)" at the start of s: the key is the longest run of
\* non-space characters after which the rest matches (the greedy \S+ gives
\* characters back one at a time); len = 0 when there is no match here.
PairWithKey(s, k, t) == [len |-> k + t.len, key |-> Slice(s, 0, k), value |-> t.value]

PairAmong(s, keys) ==
    IF keys = {} THEN [len |-> 0, key |-> <<>>, value |-> <<>>]
    ELSE LET k == CHOOSE i \in keys : \A j \in keys : j <= i
         IN  PairWithKey(s, k, PairTail(SliceFrom(s, k)))

PairAt(s) ==
    PairAmong(s, {k \in 1..SpanLenOutside(s, SpaceChars) : PairTail(SliceFrom(s, k)).len > 0})

\* pairsContent.matchAll(/(\S+)\s*=\s*"([^"]*)"/g), as [key, value] from left to right
RECURSIVE PairMatches(_)
PairsFrom(s, m) ==
    IF m.len > 0
    THEN <<[key |-> m.key, value |-> m.value]>> \o PairMatches(SliceFrom(s, m.len))
    ELSE PairMatches(Tail(s))

PairMatches(s) == IF s = <<>> THEN <<>> ELSE PairsFrom(s, PairAt(s))

\* for (const [_, key, value] of pairs) item.pairs[key] = Xml.unescape(value):
\* the proxy validates each key and throws on the first bad one
RECURSIVE SetPairs(_, _)
SetPairs(obj, ms) ==
    IF ms = <<>> THEN [ok |-> TRUE, obj |-> obj]
    ELSE IF ~validateName(StringValue(ms[1].key)).ok THEN [ok |-> FALSE, obj |-> obj]
    ELSE SetPairs(Put(obj, ms[1].key, unescape(ms[1].value)), Tail(ms))

DeclarationCanParse(text) == StartsWith(text, DeclarationOpen)

\* return [item, remaining], unless a pair key was refused
DeclarationItem(type, pairs, remaining) ==
    IF ~pairs.ok THEN Failed("InvalidName")
    ELSE Parsed(Payload("Declaration", <<>>, type, pairs.obj), remaining)

DeclarationParse(text) ==
    LET body      == SliceFrom(text, 2)
        end       == IndexOf(body, DeclarationClose)
        content   == IF end < 0 THEN body ELSE trim(Slice(body, 0, end))
        remaining == IF end < 0 THEN <<>> ELSE SliceFrom(body, end + 2)
        name      == nameParser(content)
        type      == IF name = <<>> THEN DefaultDeclarationType ELSE name
        pairsContent == trim(SliceFrom(content, Len(type)))
    IN  DeclarationItem(type, SetPairs(NoAttrs, PairMatches(pairsContent)), remaining)

(***************************************************************************)
(* Metadata                                                                *)
(***************************************************************************)
DefaultMetadataType == Str(<<"M", "E", "T", "A", "D", "A", "T", "A">>)

\* The set trap of the #values proxy and of the #names proxy: it answers
\* false for a key that is not a number, and "length" is such a key.
ArrayTrapAccepts(key) == key # "length"

\* Array.prototype.push through the proxy: one [[Set]] per item, then the
\* [[Set]] of "length"; a trap that answers false makes push throw a TypeError.
PushSucceeds(items) ==
    /\ \A i \in 1..Len(items) : ArrayTrapAccepts("index")
    /\ ArrayTrapAccepts("length")

\* "([^"]*)" matches from left to right, the text between the quotes
RECURSIVE QuotedValues(_)
QuotedValues(s) ==
    LET open  == IndexOf(s, <<DQ>>)
        close == IF open < 0 THEN -1 ELSE IndexOf(SliceFrom(s, open + 1), <<DQ>>)
    IN  IF close < 0 THEN <<>>
        ELSE <<Slice(s, open + 1, open + 1 + close)>>
             \o QuotedValues(SliceFrom(s, open + 1 + close + 1))

\* valueContent.replace(/"[^"]*"/g, '')
RECURSIVE StripQuoted(_)
StripQuoted(s) ==
    LET open  == IndexOf(s, <<DQ>>)
        close == IF open < 0 THEN -1 ELSE IndexOf(SliceFrom(s, open + 1), <<DQ>>)
    IN  IF close < 0 THEN s
        ELSE Slice(s, 0, open) \o StripQuoted(SliceFrom(s, open + 1 + close + 1))

\* nameContent.matchAll(/\S+/g)
RECURSIVE Tokens(_)
Tokens(s) ==
    LET t == trimStart(s)
        n == SpanLenOutside(t, SpaceChars)
    IN  IF t = <<>> THEN <<>> ELSE <<Slice(t, 0, n)>> \o Tokens(SliceFrom(t, n))

MetadataCanParse(text) == StartsWith(text, MetadataOpen)

MetadataParse(text) ==
    LET body      == SliceFrom(text, 2)
        end       == IndexOf(body, Str(<<">">>))
        content   == IF end < 0 THEN body ELSE trim(Slice(body, 0, end))
        remaining == IF end < 0 THEN <<>> ELSE SliceFrom(body, end + 1)
        name      == nameParser(content)
        type      == IF name = <<>> THEN DefaultMetadataType ELSE name
        valueContent == trim(SliceFrom(content, Len(type)))
        values    == QuotedValues(valueContent)
        nameContent == trim(StripQuoted(valueContent))
        names     == Tokens(nameContent)
    IN  \* item.values.push(...values); if (names.length) item.names.push(...names):
        \* the #names trap stores nothing for an index
        IF ~PushSucceeds(values) THEN Failed("TypeError")
        ELSE IF names # <<>> /\ ~PushSucceeds(names) THEN Failed("TypeError")
        ELSE Parsed([Payload("Metadata", <<>>, type, NoAttrs) EXCEPT !.values = values],
                    remaining)

(***************************************************************************)
(* Element: the opening tag                                                *)
(***************************************************************************)
\* /^\/?\s*>/ at the start of s: the length of the match, 0 when there is none
CloserLen(s) ==
    LET slash == IF s # <<>> /\ s[1] = Ord("/") THEN 1 ELSE 0
        gt    == slash + SpanLen(SliceFrom(s, slash), SpaceChars)
    IN  IF Len(s) > gt /\ s[gt + 1] = Ord(">") THEN gt + 1 ELSE 0

\* #valueParser, /^=\s*("([^"]*)"|'([^']*)')/ at the start of s:
\* [len |-> the length of the match (0: none), inner |-> value[1].slice(1, -1)]
ValueAt(s) ==
    LET q     == IF s # <<>> /\ s[1] = Ord("=")
                 THEN 1 + SpanLen(SliceFrom(s, 1), SpaceChars) ELSE -1
        quote == IF q >= 0 /\ Len(s) > q /\ s[q + 1] \in {DQ, APOS} THEN s[q + 1] ELSE -1
        close == IF quote < 0 THEN -1 ELSE IndexOf(SliceFrom(s, q + 1), <<quote>>)
    IN  IF close < 0 THEN [len |-> 0, inner |-> <<>>]
        ELSE [len |-> q + 1 + close + 1, inner |-> Slice(s, q + 1, q + 1 + close)]

\* an attribute loop that stores the value as written, entities included
RECURSIVE AttributeLoopRaw(_, _)
AttributeLoopRaw(rest, attrs) ==
    LET remaining == trimStart(rest)
    IN  IF remaining = <<>> \/ CloserLen(remaining) > 0
        THEN [ok |-> TRUE, attrs |-> attrs, remaining |-> remaining]
        ELSE LET name == nameParser(remaining)
             IN  IF name = <<>>
                 THEN [ok |-> FALSE, attrs |-> attrs, remaining |-> remaining]
                 ELSE LET after == trimStart(SliceFrom(remaining, Len(name)))
                          value == ValueAt(after)
                      IN  AttributeLoopRaw(
                              SliceFrom(after, value.len),
                              Put(attrs, name,
                                  IF value.len > 0 THEN value.inner ELSE name))

\* The attribute loop, from the text after the element name: the attributes
\* and the text at which the loop stops, or the error it throws.
RECURSIVE AttributeLoop(_, _)
AttributeLoop(rest, attrs) ==
    LET remaining == trimStart(rest)
    IN  IF remaining = <<>> \/ CloserLen(remaining) > 0
        THEN [ok |-> TRUE, attrs |-> attrs, remaining |-> remaining]
        ELSE LET name == nameParser(remaining)
             IN  IF name = <<>>
                 THEN [ok |-> FALSE, attrs |-> attrs, remaining |-> remaining]
                 ELSE LET after == trimStart(SliceFrom(remaining, Len(name)))
                          value == ValueAt(after)
                      IN  AttributeLoop(
                              SliceFrom(after, value.len),
                              Put(attrs, name,
                                  IF value.len > 0 THEN unescape(value.inner) ELSE name))

\* Element.Parser.parse up to the end of the opening tag: the element, whether
\* the tag closed itself, and the text after the tag.
ElementTag(type, loop, closer) ==
    IF ~validateName(StringValue(type)).ok
    THEN Failed("InvalidName") @@ [selfClosed |-> FALSE]
    ELSE IF ~loop.ok
    THEN Failed("InvalidAttributeName") @@ [selfClosed |-> FALSE]
    ELSE IF closer = 0
    THEN Failed("NotClosed") @@ [selfClosed |-> FALSE]
    ELSE Parsed(Payload("Element", <<>>, type, loop.attrs),
                SliceFrom(loop.remaining, closer))
         @@ [selfClosed |-> loop.remaining[1] = Ord("/")]

ElementAttributes(type, loop) == ElementTag(type, loop, CloserLen(loop.remaining))

ElementOpen(text) ==
    IF ~StartsWith(text, Lt) THEN Failed("ElementStart") @@ [selfClosed |-> FALSE]
    ELSE LET type == nameParser(SliceFrom(text, 1))
         IN  ElementAttributes(type, AttributeLoop(SliceFrom(text, 1 + Len(type)), NoAttrs))

\* a test that takes any text that starts with "<"
ElementCanParseAnyLt(text) == StartsWith(text, Lt)

\* /^<\w/.test(text)
ElementCanParse(text) == Len(text) >= 2 /\ text[1] = Ord("<") /\ text[2] \in WordChars

\* /^<\s*\// : the text begins a closing tag
AtClosingTag(s) ==
    /\ StartsWith(s, Lt)
    /\ LET slash == 1 + SpanLen(SliceFrom(s, 1), SpaceChars)
       IN  Len(s) > slash /\ s[slash + 1] = Ord("/")

\* #closeParser, ^<\s*\/\s*(name)\s*> : the length of the match, 0 when there is none
ClosingTagLen(s) ==
    IF ~AtClosingTag(s) THEN 0
    ELSE LET slash == 1 + SpanLen(SliceFrom(s, 1), SpaceChars)
             name  == slash + 1 + SpanLen(SliceFrom(s, slash + 1), SpaceChars)
             after == name + SpanLen(SliceFrom(s, name), NameChars)
             gt    == after + SpanLen(SliceFrom(s, after), SpaceChars)
         IN  IF after > name /\ Len(s) > gt /\ s[gt + 1] = Ord(">") THEN gt + 1 ELSE 0

(***************************************************************************)
(* toString                                                                *)
(***************************************************************************)
\* array.join(sep)
RECURSIVE Join(_, _)
Join(ss, sep) ==
    IF ss = <<>> THEN <<>>
    ELSE IF Len(ss) = 1 THEN ss[1]
    ELSE ss[1] \o sep \o Join(Tail(ss), sep)

\* Object.entries(obj).map(([k, v]) => `${k}="${Xml.escapeValue(v)}"`).join(' ')
EntriesText(obj) ==
    Join([i \in 1..Len(obj) |->
             obj[i].key \o Str(<<"=">>) \o <<DQ>> \o escapeValue(obj[i].value) \o <<DQ>>],
         Str(<<" ">>))

\* " token" for every token
QuotedText(values) ==
    Concat([i \in 1..Len(values) |->
               Str(<<" ">>) \o <<DQ>> \o escapeValue(values[i]) \o <<DQ>>])
NamesText(names) == Concat([i \in 1..Len(names) |-> Str(<<" ">>) \o names[i]])

\* an element text that always has an opening and a closing tag
ElementTextPaired(d, inner, hasChildren) ==
    Lt \o d.type \o Str(<<" ">>) \o EntriesText(d.attrs)
       \o Str(<<">">>) \o inner \o Str(<<"<", "/">>) \o d.type \o Str(<<">">>)

\* Element.toString with the text of the children given
ElementText(d, inner, hasChildren) ==
    Lt \o d.type \o Str(<<" ">>) \o EntriesText(d.attrs)
       \o (IF hasChildren
           THEN Str(<<">">>) \o inner \o Str(<<"<", "/">>) \o d.type \o Str(<<">">>)
           ELSE Str(<<"/", ">">>))

\* a CDATA text with the content as it is
CDataTextVerbatim(content) == CDataOpen \o content \o CDataClose

\* CData.toString: `<![CDATA[${this.content.replace(/\]\]>/g, ']]&gt;')}]]>`
CDataText(content) ==
    CDataOpen \o ReplaceAll(content, CDataClose, Str(<<"]", "]">>) \o GtEntity) \o CDataClose

\* node.toString() for the node n of the tree ch whose nodes carry dt
RECURSIVE toString(_, _, _)
ChildrenText(ch, dt, n) == Concat([i \in 1..Len(ch[n]) |-> toString(ch, dt, ch[n][i])])
toString(ch, dt, n) ==
    CASE dt[n].kind = "Text"        -> escape(dt[n].content)
      [] dt[n].kind = "Comment"     -> CommentOpen \o escape(dt[n].content) \o CommentClose
      [] dt[n].kind = "CData"       -> CDataText(dt[n].content)
      [] dt[n].kind = "Element"     ->
            ElementText(dt[n], ChildrenText(ch, dt, n), Len(ch[n]) > 0)
      [] dt[n].kind = "Declaration" ->
            DeclarationOpen \o dt[n].type \o Str(<<" ">>) \o EntriesText(dt[n].attrs)
                            \o DeclarationClose
      [] dt[n].kind = "Metadata"    ->
            MetadataOpen \o dt[n].type \o NamesText(dt[n].names)
                         \o QuotedText(dt[n].values) \o Str(<<">">>)
      [] OTHER                      -> ChildrenText(ch, dt, n)

(***************************************************************************)
(* Xml.parse and the child loop of Element.Parser.parse                    *)
(***************************************************************************)
\* Xml.defaultParsers
DefaultParsers == <<"Text", "CData", "Comment", "Metadata", "Declaration", "Element">>

ParserNames == {"Text", "CData", "Comment", "Metadata", "Declaration", "Element", "Custom"}

\* A parser of the caller: it accepts text that starts with "@" and its parse
\* gives back a node and the text it was given.
CustomCanParse(t) == StartsWith(t, Str(<<"@">>))
CustomParse(t) == Parsed(NewNode, t)

canParse(parser, t) ==
    CASE parser = "Text" -> TextCanParse(t)
      [] parser = "CData" -> CDataCanParse(t)
      [] parser = "Comment" -> CommentCanParse(t)
      [] parser = "Metadata" -> MetadataCanParse(t)
      [] parser = "Declaration" -> DeclarationCanParse(t)
      [] parser = "Element" -> ElementCanParse(t)
      [] parser = "Custom" -> CustomCanParse(t)

\* parser.parse(text, parsers) of the parsers that do not call back into the dispatch
LeafParse(parser, t) ==
    CASE parser = "Text" -> TextParse(t)
      [] parser = "CData" -> CDataParse(t)
      [] parser = "Comment" -> CommentParse(t)
      [] parser = "Metadata" -> MetadataParse(t)
      [] parser = "Declaration" -> DeclarationParse(t)
      [] parser = "Custom" -> CustomParse(t)

\* the last parser of the list that accepts the text
RECURSIVE FindLast(_, _)
FindLast(list, t) ==
    IF list = <<>> THEN "none"
    ELSE IF canParse(list[Len(list)], t) THEN list[Len(list)]
    ELSE FindLast(SubSeq(list, 1, Len(list) - 1), t)

\* parsers.find(parser => parser.canParse(text)), "none" for undefined
RECURSIVE Find(_, _)
Find(list, t) ==
    IF list = <<>> THEN "none"
    ELSE IF canParse(Head(list), t) THEN Head(list)
    ELSE Find(Tail(list), t)

\* parsers.filter(p => p instanceof Xml.Parser), the default parsers when nothing is left
Registry(given) ==
    LET kept == SelectSeq(given, LAMBDA p : p \in ParserNames)
    IN  IF kept = <<>> THEN DefaultParsers ELSE kept

\* the document node of Xml.parse
Doc == 1

NoDispatch == [parser |-> "none", text |-> <<>>, level |-> "none"]
NoReturn == [parser |-> "none", given |-> <<>>, rest |-> <<>>, level |-> "none", node |-> Unset]

\* No parse is running.
ParseIdle ==
    /\ data = [n \in Nodes |-> NewNode]
    /\ alloc = 0
    /\ parsers = <<>>
    /\ buffer = <<>>
    /\ stack = <<>>
    /\ status = "idle"
    /\ failure = "none"
    /\ result = Unset
    /\ selected = NoDispatch
    /\ returned = NoReturn
    /\ source = <<>>
    /\ start = [n \in Nodes |-> 0]

\* throw new Error(...): the call of Xml.parse ends without a value
Throw(kind) ==
    /\ status' = "thrown"
    /\ failure' = kind
    /\ UNCHANGED <<buffer, stack, result>>

\* parser.parse(text, parsers) as far as the loop that called it sees it at
\* once: a leaf parser returns or throws, the Element parser has read its
\* opening tag (selfClosed: it returns without a child loop).
Call(parser, t) ==
    IF parser = "none" THEN Failed("NoParser") @@ [selfClosed |-> FALSE]
    ELSE IF parser = "Element" THEN ElementOpen(t)
    ELSE LeafParse(parser, t) @@ [selfClosed |-> TRUE]

\* What a dispatch loop does with the parser it found and the outcome r of
\* its parse call on the buffer: throw, or add the node to the container.
\* level is "doc" in Xml.parse and "child" in Element.Parser.parse, which
\* also refuses a parser that consumed nothing. The parse call of the
\* Element parser is left in progress (a frame on the stack) unless its tag
\* closes itself or it throws.
Deliver(container, level, parser, r) ==
    /\ selected' = [parser |-> parser, text |-> buffer, level |-> level]
    /\ IF parser = "none"
       THEN /\ Throw("NoParser")
            /\ UNCHANGED <<data, alloc, start, heapVars, returned>>
       ELSE IF ~r.ok
       THEN /\ Throw(r.error)
            /\ UNCHANGED <<data, alloc, start, heapVars, returned>>
       ELSE /\ alloc < MaxNodes
            /\ alloc' = alloc + 1
            /\ data' = [data EXCEPT ![alloc + 1] = r.node]
            /\ start' = [start EXCEPT ![alloc + 1] = Len(source) - Len(buffer)]
            /\ IF ~r.selfClosed
               THEN /\ stack' = Append(stack, [node |-> alloc + 1, given |-> buffer])
                    /\ buffer' = r.remaining
                    /\ UNCHANGED <<heapVars, returned, status, failure, result>>
               ELSE /\ parent' = add(Heap, container, alloc + 1).parent
                    /\ children' = add(Heap, container, alloc + 1).children
                    /\ returned' = [parser |-> parser, given |-> buffer,
                                    rest |-> r.remaining, level |-> level,
                                    node |-> alloc + 1]
                    /\ IF level = "child" /\ r.remaining = buffer
                       THEN Throw("NonConsuming")
                       ELSE /\ buffer' = r.remaining
                            /\ UNCHANGED <<stack, status, failure, result>>

\* One turn of a dispatch loop for the children of container:
\* parsers.find(parser => parser.canParse(text)), then parser.parse(text, parsers)
Dispatch(container, level) ==
    \E parser \in {Find(parsers, buffer)} :
        \E r \in {Call(parser, buffer)} : Deliver(container, level, parser, r)

\* What the caller of Xml.parse hands over.
MaxParseFrags == 3

\* <a b="&lt;" c
TagWithAttributes ==
    Str(<<"<", "a", " ", "b", "=">>) \o <<DQ>> \o LtEntity \o <<DQ>> \o Str(<<" ", "c">>)

ParseFrags ==
    { Str(<<"<", "a", ">">>), Str(<<"<", "/", "a", ">">>), Str(<<"<">>), Str(<<"a">>),
      Str(<<">">>), Str(<<"/">>), Str(<<"!">>), Str(<<"?">>), Str(<<" ">>),
      CommentOpen, CommentClose, CDataOpen, CDataClose, Str(<<"@">>),
      Str(<<"<", "/", "b", ">">>), Str(<<"<", "a", "/", ">">>), TagWithAttributes }

ParseTexts == Texts(ParseFrags, MaxParseFrags)

GivenParsers ==
    { <<>>,
      <<"NotAParser", "Custom">> \o DefaultParsers,
      <<"Element", "Declaration", "Comment", "CData", "Text">> }

\* Xml.parse(text, parsers) has made the document node and stands at its loop.
InitParse ==
    /\ \E given \in GivenParsers : parsers = Registry(given)
    /\ buffer \in ParseTexts
    /\ data = [n \in Nodes |-> NewNode]
    /\ alloc = 1
    /\ stack = <<>>
    /\ status = "running"
    /\ failure = "none"
    /\ result = Unset
    /\ selected = NoDispatch
    /\ returned = NoReturn
    /\ source = buffer
    /\ start = [n \in Nodes |-> 0]
    /\ InitTree
    /\ CodecIdle
    /\ FactoryIdle

\* while (text.length) { ... } of Xml.parse
ParseLoop ==
    /\ status = "running"
    /\ stack = <<>>
    /\ buffer # <<>>
    /\ Dispatch(Doc, "doc")
    /\ UNCHANGED <<parsers, source, last, codecVars>>
    /\ UNCHANGED factoryVars

\* return doc
ParseReturn ==
    /\ status = "running"
    /\ stack = <<>>
    /\ buffer = <<>>
    /\ status' = "returned"
    /\ result' = Doc
    /\ UNCHANGED <<data, alloc, parsers, buffer, stack, failure, selected, returned>>
    /\ UNCHANGED <<source, start>>
    /\ UNCHANGED <<treeVars, codecVars>>
    /\ UNCHANGED factoryVars

\* while (remaining.length) { ... } of Element.Parser.parse
ChildLoop ==
    /\ status = "running"
    /\ stack # <<>>
    /\ buffer # <<>>
    /\ ~AtClosingTag(buffer)
    /\ Dispatch(stack[Len(stack)].node, "child")
    /\ UNCHANGED <<parsers, source, last, codecVars>>
    /\ UNCHANGED factoryVars

\* The child loop is over: Element.Parser.parse takes the closing tag and
\* returns [node, remaining] to the loop that called it, which adds the node.
ElementReturn ==
    /\ status = "running"
    /\ stack # <<>>
    /\ buffer = <<>> \/ AtClosingTag(buffer)
    /\ LET frame     == stack[Len(stack)]
           outer     == SubSeq(stack, 1, Len(stack) - 1)
           level     == IF outer = <<>> THEN "doc" ELSE "child"
           container == IF outer = <<>> THEN Doc ELSE outer[Len(outer)].node
           remaining == SliceFrom(buffer, ClosingTagLen(buffer))
           h         == add(Heap, container, frame.node)
       IN  /\ parent' = h.parent
           /\ children' = h.children
           /\ returned' = [parser |-> "Element", given |-> frame.given,
                           rest |-> remaining, level |-> level, node |-> frame.node]
           /\ IF level = "child" /\ remaining = frame.given
              THEN /\ status' = "thrown"
                   /\ failure' = "NonConsuming"
                   /\ UNCHANGED <<buffer, stack, result>>
              ELSE /\ buffer' = remaining
                   /\ stack' = outer
                   /\ UNCHANGED <<status, failure, result>>
    /\ UNCHANGED <<data, alloc, parsers, selected, source, start, last, codecVars>>
    /\ UNCHANGED factoryVars

\* doc.toString() on the document that Xml.parse returned
ResultToString ==
    /\ status = "returned"
    /\ call = "none"
    /\ esc' = toString(children, data, result)
    /\ call' = "toString"
    /\ UNCHANGED <<arg, ret>>
    /\ UNCHANGED <<treeVars, parseVars>>
    /\ UNCHANGED factoryVars

NextParse ==
    \/ ParseLoop
    \/ ParseReturn
    \/ ChildLoop
    \/ ElementReturn
    \/ ResultToString

SpecParse == InitParse /\ [][NextParse]_vars

(***************************************************************************)
(* A caller of one parser: parser.parse(text, []) on a text it accepts     *)
(***************************************************************************)
MaxDirectFrags == 3

\* xml b="&lt;" c="1"
DeclarationBody ==
    Str(<<"x", "m", "l", " ", "b", "=">>) \o <<DQ>> \o LtEntity \o <<DQ>>
        \o Str(<<" ", "c", "=">>) \o <<DQ>> \o Str(<<"1">>) \o <<DQ>>

\* = b="1"
NamelessBody == Str(<<"=", " ", "b", "=">>) \o <<DQ>> \o Str(<<"1">>) \o <<DQ>>

\* A B "c" "d"
MetadataBody ==
    Str(<<"A", " ", "B", " ">>) \o <<DQ>> \o Str(<<"c">>) \o <<DQ>>
        \o Str(<<" ">>) \o <<DQ>> \o Str(<<"d">>) \o <<DQ>>

\* A "a>b"
QuotedGtBody == Str(<<"A", " ">>) \o <<DQ>> \o Str(<<"a", ">", "b">>) \o <<DQ>>

DirectFrags ==
    { Lt, Str(<<"a">>), Str(<<" ">>), Str(<<">">>), LtEntity,
      CommentOpen, CommentClose, CDataOpen, CDataClose,
      DeclarationOpen, DeclarationClose, MetadataOpen,
      DeclarationBody, NamelessBody, MetadataBody, QuotedGtBody }

DirectTexts == Texts(DirectFrags, MaxDirectFrags)

\* The caller holds a text and has called nothing.
InitDirect ==
    /\ buffer \in DirectTexts
    /\ source = buffer
    /\ data = [n \in Nodes |-> NewNode]
    /\ alloc = 0
    /\ parsers = <<>>
    /\ stack = <<>>
    /\ status = "idle"
    /\ failure = "none"
    /\ result = Unset
    /\ selected = NoDispatch
    /\ returned = NoReturn
    /\ start = [n \in Nodes |-> 0]
    /\ InitTree
    /\ CodecIdle
    /\ FactoryIdle

\* const [item, remaining] = parser.parse(text, [])
DirectCall(parser) ==
    /\ status = "idle"
    /\ selected' = [parser |-> parser, text |-> buffer, level |-> "direct"]
    /\ \E r \in {LeafParse(parser, buffer)} :
          IF r.ok
          THEN /\ data' = [data EXCEPT ![1] = r.node]
               /\ alloc' = 1
               /\ returned' = [parser |-> parser, given |-> buffer, rest |-> r.remaining,
                               level |-> "direct", node |-> 1]
               /\ status' = "returned"
               /\ UNCHANGED failure
          ELSE /\ status' = "thrown"
               /\ failure' = r.error
               /\ UNCHANGED <<data, alloc, returned>>
    /\ UNCHANGED <<parsers, buffer, stack, result, source, start>>
    /\ UNCHANGED <<treeVars, codecVars>>
    /\ UNCHANGED factoryVars

CallTextParse ==
    /\ TextCanParse(buffer)
    /\ DirectCall("Text")

CallCommentParse ==
    /\ CommentCanParse(buffer)
    /\ DirectCall("Comment")

CallCDataParse ==
    /\ CDataCanParse(buffer)
    /\ DirectCall("CData")

CallDeclarationParse ==
    /\ DeclarationCanParse(buffer)
    /\ DirectCall("Declaration")

CallMetadataParse ==
    /\ MetadataCanParse(buffer)
    /\ DirectCall("Metadata")

NextDirect ==
    \/ CallTextParse
    \/ CallCommentParse
    \/ CallCDataParse
    \/ CallDeclarationParse
    \/ CallMetadataParse

SpecDirect == InitDirect /\ [][NextDirect]_vars

(***************************************************************************)
(* The callers of the static functions: one value, then calls on it        *)
(***************************************************************************)
MaxCodecFrags == 3
MaxNameFrags == 3

CodecFrags ==
    { Str(<<"&">>), Str(<<"<">>), Str(<<">">>), <<DQ>>, <<APOS>>, <<LF>>, <<CR>>,
      Str(<<"a", "m", "p", ";">>), Str(<<"l", "t", ";">>), Str(<<"q", "u", "o", "t", ";">>),
      Str(<<"#", "1", "0", ";">>), Str(<<"#", "x", "4", "1", ";">>),
      Str(<<"a">>), Str(<<";">>), Str(<<"#">>), Str(<<"1">>) }

NameFrags ==
    { Str(<<"a">>), Str(<<"Z">>), Str(<<"0">>), Str(<<"_">>), Str(<<".">>), Str(<<"-">>),
      Str(<<":">>), Str(<<" ">>), Str(<<"<">>), Str(<<"/">>), <<LF>>, <<233>> }

\* Values that are not strings, each with the text String(value) gives.
NonStrings ==
    { [t |-> "number", v |-> Str(<<"5">>)],
      [t |-> "undefined", v |-> Str(<<"u", "n", "d", "e", "f", "i", "n", "e", "d">>)],
      [t |-> "object", v |-> Str(<<"n", "u", "l", "l">>)],
      [t |-> "boolean", v |-> Str(<<"t", "r", "u", "e">>)] }

CodecArgs ==
    {StringValue(s) : s \in Texts(CodecFrags, MaxCodecFrags) \cup Texts(NameFrags, MaxNameFrags)}
        \cup NonStrings

InitCodec ==
    /\ arg \in CodecArgs
    /\ esc = <<>>
    /\ ret = NoValue
    /\ call = "none"
    /\ parent = [n \in Nodes |-> Unset]
    /\ children = [n \in Nodes |-> <<>>]
    /\ last = NoCall
    /\ ParseIdle
    /\ FactoryIdle

CallEscape ==
    /\ call = "none"
    /\ arg.t = "string"
    /\ esc' = escape(arg.v)
    /\ call' = "escape"
    /\ UNCHANGED <<arg, ret>>
    /\ UNCHANGED <<treeVars, parseVars>>
    /\ UNCHANGED factoryVars

CallEscapeValue ==
    /\ call = "none"
    /\ arg.t = "string"
    /\ esc' = escapeValue(arg.v)
    /\ call' = "escapeValue"
    /\ UNCHANGED <<arg, ret>>
    /\ UNCHANGED <<treeVars, parseVars>>
    /\ UNCHANGED factoryVars

\* unescape applied to what escape or escapeValue returned
CallUnescapeEscaped ==
    /\ call \in {"escape", "escapeValue"}
    /\ ret' = Returned(StringValue(unescape(esc)))
    /\ call' = IF call = "escape" THEN "escape;unescape" ELSE "escapeValue;unescape"
    /\ UNCHANGED <<arg, esc>>
    /\ UNCHANGED <<treeVars, parseVars>>
    /\ UNCHANGED factoryVars

\* unescape applied to the caller's own text
CallUnescape ==
    /\ call = "none"
    /\ arg.t = "string"
    /\ ret' = Returned(StringValue(unescape(arg.v)))
    /\ call' = "unescape"
    /\ UNCHANGED <<arg, esc>>
    /\ UNCHANGED <<treeVars, parseVars>>
    /\ UNCHANGED factoryVars

CallValidateName ==
    /\ call = "none"
    /\ ret' = validateName(arg)
    /\ call' = "validateName"
    /\ UNCHANGED <<arg, esc>>
    /\ UNCHANGED <<treeVars, parseVars>>
    /\ UNCHANGED factoryVars

NextCodec ==
    \/ CallEscape
    \/ CallEscapeValue
    \/ CallUnescapeEscaped
    \/ CallUnescape
    \/ CallValidateName

SpecCodec == InitCodec /\ [][NextCodec]_vars

(***************************************************************************)
(* A caller that builds and edits a tree with add and remove               *)
(***************************************************************************)
InitTreeCaller ==
    /\ InitTree
    /\ CodecIdle
    /\ ParseIdle
    /\ FactoryIdle

CallAdd ==
    /\ \E this \in TreeNodes, item \in TreeNodes \cup {NotANode} : Add(this, item)
    /\ UNCHANGED <<codecVars, parseVars>>
    /\ UNCHANGED factoryVars

CallRemove ==
    /\ \E this \in TreeNodes, item \in TreeNodes : Remove(this, item)
    /\ UNCHANGED <<codecVars, parseVars>>
    /\ UNCHANGED factoryVars

NextTree ==
    \/ CallAdd
    \/ CallRemove

SpecTree == InitTreeCaller /\ [][NextTree]_vars

(***************************************************************************)
(* A caller that hands unescape a text with character references           *)
(***************************************************************************)
MaxRefFrags == 2

\* &#65601; and &#x10041; name the same code point above 0xFFFF
HighDecRef == Str(<<"&", "#", "6", "5", "6", "0", "1", ";">>)
HighHexRef == Str(<<"&", "#", "x", "1", "0", "0", "4", "1", ";">>)

RefFrags ==
    { Str(<<"&", "#", "6", "5", ";">>), Str(<<"&", "#", "x", "4", "1", ";">>),
      HighDecRef, HighHexRef,
      Str(<<"&", "#", "3", "8", ";">>), Str(<<"&", "#", "x", "2", "6", ";">>),
      Str(<<"#", "x", "4", "1", ";">>), Str(<<"#", "6", "5", ";">>),
      AmpEntity, Str(<<"a", "m", "p", ";">>), Str(<<"l", "t", ";">>), Str(<<"a">>) }

InitRefs ==
    /\ arg \in {StringValue(t) : t \in Texts(RefFrags, MaxRefFrags)}
    /\ esc = <<>>
    /\ ret = NoValue
    /\ call = "none"
    /\ InitTree
    /\ ParseIdle
    /\ FactoryIdle

NextRefs == CallUnescape

SpecRefs == InitRefs /\ [][NextRefs]_vars

(***************************************************************************)
(* A caller that makes a content node, serializes it and parses the text   *)
(***************************************************************************)
MaxSerialFrags == 3

SerialFrags ==
    { Str(<<"a">>), Str(<<" ">>), Lt, Str(<<">">>), Str(<<"&">>), LtEntity,
      Str(<<"]">>), CDataClose }

\* The caller holds the content it is going to give a node.
InitSerial ==
    /\ arg \in {StringValue(c) : c \in Texts(SerialFrags, MaxSerialFrags)}
    /\ esc = <<>>
    /\ ret = NoValue
    /\ call = "none"
    /\ InitTree
    /\ ParseIdle
    /\ FactoryIdle

\* node = new Xml.Text() or new Xml.CData(); node.content = content
NewContentNode ==
    \E kind \in {"Text", "CData"} :
        /\ call = "none"
        /\ alloc = 0
        /\ data' = [data EXCEPT ![1] = NewContent(kind, arg.v)]
        /\ alloc' = 1
        /\ call' = "new"
        /\ UNCHANGED <<arg, esc, ret, treeVars, factoryVars>>
        /\ UNCHANGED <<parsers, buffer, stack, status, failure, result, selected, returned,
                       source, start>>

\* text = node.toString()
NodeToString ==
    /\ call = "new"
    /\ esc' = toString(children, data, 1)
    /\ call' = IF data[1].kind = "Text" THEN "Text.toString" ELSE "CData.toString"
    /\ UNCHANGED <<arg, ret, treeVars, parseVars, factoryVars>>

\* new Xml.CData.Parser().parse(text, []) on the text of a CData node
ReparseCData ==
    /\ call = "CData.toString"
    /\ CDataCanParse(esc)
    /\ \E r \in {LeafParse("CData", esc)} :
          /\ r.ok
          /\ data' = [data EXCEPT ![alloc + 1] = r.node]
          /\ alloc' = alloc + 1
          /\ selected' = [parser |-> "CData", text |-> esc, level |-> "direct"]
          /\ returned' = [parser |-> "CData", given |-> esc, rest |-> r.remaining,
                          level |-> "direct", node |-> alloc + 1]
          /\ status' = "returned"
    /\ call' = "CData.toString;CData.parse"
    /\ UNCHANGED <<arg, esc, ret, treeVars, factoryVars>>
    /\ UNCHANGED <<parsers, buffer, stack, failure, result, source, start>>

\* Xml.parse(text) on the text of the node, up to the loop of Xml.parse; the
\* node that was serialized is not used again.
ParseSerialized ==
    /\ call \in {"Text.toString", "CData.toString"}
    /\ parsers' = DefaultParsers
    /\ buffer' = esc
    /\ source' = esc
    /\ data' = [n \in Nodes |-> NewNode]
    /\ alloc' = 1
    /\ status' = "running"
    /\ call' = IF call = "Text.toString" THEN "Text.toString;Xml.parse"
                                         ELSE "CData.toString;Xml.parse"
    /\ UNCHANGED <<arg, esc, ret, treeVars, factoryVars>>
    /\ UNCHANGED <<stack, failure, result, selected, returned, start>>

NextSerial ==
    \/ NewContentNode
    \/ NodeToString
    \/ ReparseCData
    \/ ParseSerialized
    \/ ParseLoop
    \/ ParseReturn

SpecSerial == InitSerial /\ [][NextSerial]_vars

(***************************************************************************)
(* A caller that makes a node and assigns its name-like fields             *)
(***************************************************************************)
\* new Xml.Element(), new Xml.Declaration(), new Xml.Metadata()
NewElement == Payload("Element", <<>>, Str(<<"e", "l", "e", "m", "e", "n", "t">>), NoAttrs)
NewDeclaration == Payload("Declaration", <<>>, DefaultDeclarationType, NoAttrs)
NewMetadata == Payload("Metadata", <<>>, DefaultMetadataType, NoAttrs)

\* What the caller assigns: names, good and bad, and values.
SetterNames ==
    { StringValue(Str(<<"a">>)), StringValue(Str(<<"b", ":", "c">>)), StringValue(<<>>),
      StringValue(Str(<<"a", " ", "b">>)), StringValue(Lt),
      [t |-> "number", v |-> Str(<<"5">>)] }
SetterValues == { Str(<<"x">>), Lt }

TypeErrorThrown == Thrown(<<"T", "y", "p", "e", "E", "r", "r", "o", "r">>)

\* The caller holds a node fresh from its constructor.
InitSetters ==
    /\ \E made \in {NewElement, NewDeclaration, NewMetadata} :
          data = [n \in Nodes |-> IF n = 1 THEN made ELSE NewNode]
    /\ alloc = 1
    /\ parsers = <<>>
    /\ buffer = <<>>
    /\ stack = <<>>
    /\ status = "idle"
    /\ failure = "none"
    /\ result = Unset
    /\ selected = NoDispatch
    /\ returned = NoReturn
    /\ source = <<>>
    /\ start = [n \in Nodes |-> 0]
    /\ InitTree
    /\ CodecIdle
    /\ FactoryIdle

\* node.type = name, of Element, Declaration and Metadata alike:
\* set type(name) { this.#type = Xml.validateName(name); }
SetType ==
    \E name \in SetterNames :
        /\ arg' = name
        /\ call' = "setType"
        /\ ret' = validateName(name)
        /\ data' = IF validateName(name).ok
                   THEN [data EXCEPT ![1].type = name.v] ELSE data
        /\ UNCHANGED <<esc, treeVars>>
        /\ UNCHANGED <<alloc, parsers, buffer, stack, status, failure, result, selected,
                       returned, source, start>>
        /\ UNCHANGED factoryVars

\* element.attributes[key] = value and declaration.pairs[key] = value: the set
\* trap of the proxy, t[Xml.validateName(k)] = `${v}`; return true
SetEntry ==
    \E key \in {n \in SetterNames : n.t = "string"} : \E value \in SetterValues :
        /\ data[1].kind \in {"Element", "Declaration"}
        /\ arg' = key
        /\ esc' = value
        /\ call' = "setEntry"
        /\ ret' = validateName(key)
        /\ data' = IF validateName(key).ok
                   THEN [data EXCEPT ![1].attrs = Put(@, key.v, value)] ELSE data
        /\ UNCHANGED treeVars
        /\ UNCHANGED <<alloc, parsers, buffer, stack, status, failure, result, selected,
                       returned, source, start>>
        /\ UNCHANGED factoryVars

\* metadata.names[index] = name: the set trap of the #names proxy gets a key
\* that is a number, so neither of its two tests on isNaN(Number(k)) holds; it
\* stores nothing, validates nothing and answers true
SetName ==
    \E name \in SetterNames :
        /\ data[1].kind = "Metadata"
        /\ arg' = name
        /\ call' = "setName"
        /\ ret' = Returned(name)
        /\ UNCHANGED <<esc, treeVars, parseVars>>
        /\ UNCHANGED factoryVars

\* metadata.names.push(name): the trap as in SetName, then the [[Set]] of
\* "length", which the trap refuses
PushName ==
    \E name \in SetterNames :
        /\ data[1].kind = "Metadata"
        /\ arg' = name
        /\ call' = "pushName"
        /\ ret' = IF PushSucceeds(<<name.v>>) THEN Returned(name) ELSE TypeErrorThrown
        /\ UNCHANGED <<esc, treeVars, parseVars>>
        /\ UNCHANGED factoryVars

NextSetters ==
    \/ SetType
    \/ SetEntry
    \/ SetName
    \/ PushName

SpecSetters == InitSetters /\ [][NextSetters]_vars

(***************************************************************************)
(* Factory (test.js): resolve and toSingleton                              *)
(***************************************************************************)
\* null, as the value of a promise and of the instance variable
Null == 0

TypeNames == {"A", "B", "C", "M"}

\* config[name] for a name without an entry
NoEntry == [factory |-> "none", dependencies |-> <<>>]

\* An entry whose factory makes a new object at every call ("plain"), one
\* whose factory is such a function wrapped by Factory.toSingleton
\* ("singleton"), and one whose factory is not a function ("notfn").
Entry(factory, dependencies) == [factory |-> factory, dependencies |-> dependencies]

\* The configurations handed to new Factory(configuration): "M" never has an
\* entry and no entry depends on itself, directly or not.
Configurations ==
    { [n \in TypeNames |->
          CASE n = "A" -> a
            [] n = "B" -> b
            [] n = "C" -> c
            [] OTHER   -> NoEntry] :
      a \in { NoEntry, Entry("notfn", <<>>), Entry("plain", <<>>), Entry("singleton", <<>>) },
      b \in { NoEntry, Entry("plain", <<"A">>), Entry("singleton", <<"A">>),
              Entry("plain", <<"M", "A">>) },
      c \in { Entry("plain", <<"A", "B">>), Entry("plain", <<"B", "A">>),
              Entry("singleton", <<"B", "B">>) } }

\* entry && typeof(entry.factory) === 'function'
Callable(entry) == entry.factory \in {"plain", "singleton"}

\* The calls of resolve a caller may make, and the calls of resolve, its own
\* and those for dependencies, that may be in progress or finished.
MaxCalls == 2
MaxFrames == 6

\* A call of resolve: the name, the call that awaits it (0: the caller), where
\* it stands, the array its factory was given and the value of its promise.
\*   "gathering": at await Promise.all(...)
\*   "creating" : at the await of the wrapped factory's promise
\*   "done"     : its promise is resolved
Frame(name, awaitedBy, pc) ==
    [name |-> name, parent |-> awaitedBy, pc |-> pc, given |-> <<>>, result |-> Null,
     made |-> Null]

\* session.resolve(name) up to its first await: without a callable entry it
\* returns null, otherwise entry.dependencies.map(async n => await
\* session.resolve(n)) starts a call for every dependency, in order, each up
\* to its own first await.
RECURSIVE Spawn(_, _, _, _), SpawnAll(_, _, _, _)
Spawn(cfg, fs, name, awaitedBy) ==
    IF ~Callable(cfg[name])
    THEN Append(fs, [Frame(name, awaitedBy, "done") EXCEPT !.result = Null])
    ELSE SpawnAll(cfg, Append(fs, Frame(name, awaitedBy, "gathering")),
                  cfg[name].dependencies, Len(fs) + 1)
SpawnAll(cfg, fs, deps, awaitedBy) ==
    IF deps = <<>> THEN fs
    ELSE SpawnAll(cfg, Spawn(cfg, fs, deps[1], awaitedBy), Tail(deps), awaitedBy)

\* the calls that the call f awaits, in the order of entry.dependencies
RECURSIVE Awaited(_, _, _)
Awaited(fs, f, from) ==
    IF from > Len(fs) THEN <<>>
    ELSE (IF fs[from].parent = f THEN <<from>> ELSE <<>>) \o Awaited(fs, f, from + 1)

\* the array Promise.all resolves to, in reverse
DependenciesReversed(fs, f) ==
    LET a == Awaited(fs, f, 1)
    IN  [i \in 1..Len(a) |-> fs[a[Len(a) + 1 - i]].result]

\* the array Promise.all resolves to: the values of the awaited calls in order
Dependencies(fs, f) ==
    LET a == Awaited(fs, f, 1)
    IN  [i \in 1..Len(a) |-> fs[a[i]].result]

\* A caller has made a factory from one of the configurations.
InitFactory ==
    /\ config \in Configurations
    /\ frames = <<>>
    /\ instance = [n \in TypeNames |-> Null]
    /\ objects = <<>>
    /\ InitTree
    /\ CodecIdle
    /\ ParseIdle

\* factory.resolve(name) called by the caller (overrides: none)
Resolve ==
    \E name \in TypeNames :
        \E fs \in {Spawn(config, frames, name, 0)} :
            /\ Cardinality({f \in 1..Len(frames) : frames[f].parent = 0}) < MaxCalls
            /\ Len(fs) <= MaxFrames
            /\ frames' = fs
            /\ UNCHANGED <<config, instance, objects>>
            /\ UNCHANGED <<codecVars, treeVars, parseVars>>

\* Promise.all has resolved: return await entry.factory.call(session,
\* dependencies), for a factory that is not wrapped, up to its await. The
\* factory makes a new object.
CallPlain ==
    \E f \in 1..Len(frames) :
        /\ frames[f].pc = "gathering"
        /\ config[frames[f].name].factory = "plain"
        /\ \A g \in 1..Len(frames) : frames[g].parent = f => frames[g].pc = "done"
        /\ \E deps \in {Dependencies(frames, f)} :
              /\ objects' = Append(objects, [name |-> frames[f].name, given |-> deps, by |-> f])
              /\ frames' = [frames EXCEPT ![f].given = deps, ![f].pc = "creating",
                                          ![f].made = Len(objects) + 1]
        /\ UNCHANGED <<config, instance>>
        /\ UNCHANGED <<codecVars, treeVars, parseVars>>

\* The same for a factory wrapped by toSingleton, up to the wrapper's await:
\* if (!instance) { instance = await factory.call(this, dependencies); }
\* calls the wrapped factory when instance is still null, and otherwise goes
\* on to return instance.
CallSingleton ==
    \E f \in 1..Len(frames) :
        /\ frames[f].pc = "gathering"
        /\ config[frames[f].name].factory = "singleton"
        /\ \A g \in 1..Len(frames) : frames[g].parent = f => frames[g].pc = "done"
        /\ \E deps \in {Dependencies(frames, f)} :
              IF instance[frames[f].name] = Null
              THEN /\ objects' = Append(objects,
                                        [name |-> frames[f].name, given |-> deps, by |-> f])
                   /\ frames' = [frames EXCEPT ![f].given = deps, ![f].pc = "creating",
                                               ![f].made = Len(objects) + 1]
              ELSE /\ frames' = [frames EXCEPT ![f].given = deps, ![f].pc = "done",
                                               ![f].result = instance[frames[f].name]]
                   /\ UNCHANGED objects
        /\ UNCHANGED <<config, instance>>
        /\ UNCHANGED <<codecVars, treeVars, parseVars>>

\* The promise of the wrapped factory has resolved. The wrapper assigns
\* instance and returns it; a factory that is not wrapped hands the object on.
Created ==
    \E f \in 1..Len(frames) :
        /\ frames[f].pc = "creating"
        /\ frames' = [frames EXCEPT ![f].pc = "done", ![f].result = frames[f].made]
        /\ instance' = IF config[frames[f].name].factory = "singleton"
                       THEN [instance EXCEPT ![frames[f].name] = frames[f].made]
                       ELSE instance
        /\ UNCHANGED <<config, objects>>
        /\ UNCHANGED <<codecVars, treeVars, parseVars>>

NextFactory ==
    \/ Resolve
    \/ CallPlain
    \/ CallSingleton
    \/ Created

SpecFactory == InitFactory /\ [][NextFactory]_vars

(***************************************************************************)
(* Properties of the codec and of the name validator                       *)
(***************************************************************************)
Text3(a, b, c) == a \o b \o c

\* C1: for every string s, unescape(escape(s)) is s.
C1_EscapeRoundTrip ==
    call = "escape;unescape" => ret = Returned(StringValue(arg.v))

\* s = "<&lt;": escape gives "&lt;&amp;lt;", which unescape takes back to s
C1_Witness ==
    /\ call = "escape;unescape"
    /\ arg.v = Text3(Str(<<"<">>), Str(<<"&">>), Str(<<"l", "t", ";">>))
    /\ esc = Text3(LtEntity, AmpEntity, Str(<<"l", "t", ";">>))
    /\ ret.v.v = arg.v

\* C2: for every string s, unescape(escapeValue(s)) is s, also when s holds
\* quotes, apostrophes, newlines, carriage returns or the text of an entity.
C2_EscapeValueRoundTrip ==
    call = "escapeValue;unescape" => ret = Returned(StringValue(arg.v))

\* s = newline, then the five characters "&#10;"
C2_Witness ==
    /\ call = "escapeValue;unescape"
    /\ arg.v = Text3(<<LF>>, Str(<<"&">>), Str(<<"#", "1", "0", ";">>))
    /\ esc = Text3(LfEntity, AmpEntity, Str(<<"#", "1", "0", ";">>))
    /\ ret.v.v = arg.v

\* the characters a name may hold: letters, digits, '_', '.', '-', ':'
ValidNameChars ==
    { Ord(ch) : ch \in
        { "a", "b", "c", "d", "e", "f", "g", "h", "i", "j", "k", "l", "m", "n", "o", "p",
          "q", "r", "s", "t", "u", "v", "w", "x", "y", "z", "A", "B", "C", "D", "E", "F",
          "G", "H", "I", "J", "K", "L", "M", "N", "O", "P", "Q", "R", "S", "T", "U", "V",
          "W", "X", "Y", "Z", "0", "1", "2", "3", "4", "5", "6", "7", "8", "9",
          ".", "_", "-", ":" } }

IsValidName(value) ==
    /\ value.t = "string"
    /\ value.v # <<>>
    /\ \A i \in 1..Len(value.v) : value.v[i] \in ValidNameChars

\* C3: validateName returns a non-empty string of letters, digits, '_', '.',
\* '-', ':' unchanged, and throws for the empty string, for a value that is
\* not a string and for a string with any other character.
C3_ValidateName ==
    call = "validateName" =>
        IF IsValidName(arg) THEN ret = Returned(arg) ELSE ~ret.ok

C3_Witness ==
    /\ call = "validateName"
    /\ arg = StringValue(Str(<<"a", ".", ":">>))
    /\ ret = Returned(arg)

(***************************************************************************)
(* Properties of the node model                                            *)
(***************************************************************************)
Occurrences(seq, x) == Cardinality({i \in 1..Len(seq) : seq[i] = x})

\* C4: whatever add and remove calls were made, a node is in the child
\* sequence of p exactly when its parent is p, it is there once, and no node
\* is a child of two nodes.
C4_ParentChildAgree ==
    \A c \in Nodes :
        /\ \A p \in Nodes :
              /\ (Occurrences(children[p], c) >= 1) <=> (parent[c] = p)
              /\ Occurrences(children[p], c) <= 1
        /\ Cardinality({p \in Nodes : Occurrences(children[p], c) >= 1}) <= 1

\* a node was moved from one parent to another that already had a child
C4_Witness ==
    /\ last.op = "add"
    /\ last.from \in Nodes
    /\ last.from # last.this
    /\ Len(children[last.this]) >= 2

\* the nodes reached from n by following parent links at least once
RECURSIVE AncestorsIn(_, _)
AncestorsIn(n, k) ==
    IF k = 0 \/ parent[n] \notin Nodes THEN {}
    ELSE {parent[n]} \cup AncestorsIn(parent[n], k - 1)

Ancestors(n) == AncestorsIn(n, MaxNodes)

\* C5: whatever add and remove calls were made, following parent links from
\* a node never comes back to that node.
C5_NoNodeContainsItself ==
    \A n \in Nodes : n \notin Ancestors(n)

\* the sequence without every occurrence of x, the others in their order
RECURSIVE Without(_, _)
Without(seq, x) ==
    IF seq = <<>> THEN <<>>
    ELSE LET rest == Without(SubSeq(seq, 1, Len(seq) - 1), x)
         IN  IF seq[Len(seq)] = x THEN rest ELSE Append(rest, seq[Len(seq)])

\* C6: p.add(c) returns p, makes c the last child of p and p the parent of c;
\* a c taken from another parent q leaves q with one child less and the other
\* children of q in their order; a c that was a child of p moves to the end
\* and p keeps its number of children.
C6_AddMoves ==
    [][ (last'.op = "add" /\ last'.item \in Nodes) =>
            LET p == last'.this
                c == last'.item
                q == parent[c]
            IN  /\ last'.ret = p
                /\ parent'[c] = p
                /\ children'[p] # <<>>
                /\ children'[p][Len(children'[p])] = c
                /\ (q \in Nodes /\ q # p) =>
                      /\ Len(children'[q]) = Len(children[q]) - 1
                      /\ children'[q] = Without(children[q], c)
                      /\ children'[p] = Append(children[p], c)
                /\ (q = p) =>
                      /\ Len(children'[p]) = Len(children[p])
                      /\ children'[p] = Append(Without(children[p], c), c)
      ]_vars

\* c came from another parent, which keeps a child
C6_Witness ==
    /\ last.op = "add"
    /\ last.from \in Nodes
    /\ last.from # last.this
    /\ last.ret = last.this
    /\ children[last.from] # <<>>
    /\ parent[last.item] = last.this

\* C7: p.remove(c) changes nothing when the parent of c is not p; otherwise it
\* takes c out of the children of p, clears the parent of c and leaves the
\* order of the other children and every other node as they were.
C7_RemoveFrame ==
    [][ last'.op = "remove" =>
            LET p == last'.this
                c == last'.item
            IN  IF parent[c] # p
                THEN parent' = parent /\ children' = children
                ELSE /\ parent' = [parent EXCEPT ![c] = Unset]
                     /\ children' = [children EXCEPT ![p] = Without(children[p], c)]
      ]_vars

\* a child was removed and its parent keeps a child
C7_Witness ==
    /\ last.op = "remove"
    /\ last.from = last.this
    /\ parent[last.item] = Unset
    /\ children[last.this] # <<>>

(***************************************************************************)
(* Properties of the dispatch loops                                        *)
(***************************************************************************)
\* the places in the registry of the parsers whose canParse accepts the text
Accepting(registry, t) == {i \in 1..Len(registry) : canParse(registry[i], t)}

FirstAccepting(registry, t) ==
    IF Accepting(registry, t) = {} THEN "none"
    ELSE registry[CHOOSE i \in Accepting(registry, t) :
                      \A j \in Accepting(registry, t) : i <= j]

\* C8: at every dispatch step, at the document level and inside an element,
\* the parser used is the first one in registry order whose canParse accepts
\* the remaining text; with the default order text that starts with "<!--"
\* goes to Comment, text that starts with "<![CDATA[" goes to CData, and
\* Text is selected exactly when the text does not start with "<".
C8_FirstAcceptingParser ==
    selected.level # "none" =>
        /\ selected.parser = FirstAccepting(parsers, selected.text)
        /\ parsers = DefaultParsers =>
              /\ StartsWith(selected.text, CommentOpen) => selected.parser = "Comment"
              /\ StartsWith(selected.text, CDataOpen) => selected.parser = "CData"
              /\ (selected.parser = "Text") <=> ~StartsWith(selected.text, Lt)

\* inside an element, with the default order, a comment went to Comment
C8_Witness ==
    /\ parsers = DefaultParsers
    /\ selected.level = "child"
    /\ StartsWith(selected.text, CommentOpen)
    /\ selected.parser = "Comment"
    /\ returned.parser = "Comment"

\* the text starts with "<" and no word character, "!" or "?" follows it
MalformedLt(t) ==
    /\ t # <<>>
    /\ t[1] = Ord("<")
    /\ Len(t) >= 2 => t[2] \notin WordChars \cup {Ord("!"), Ord("?")}

\* C9: with the default registry the call ends with the no-parser error
\* exactly when the text at the dispatch step it has come to starts with "<"
\* that is not followed by a word character, "!" or "?"; a call that has
\* thrown has returned no tree.
C9_NoParserError ==
    /\ parsers = DefaultParsers =>
          (failure = "NoParser") <=>
              (selected.level # "none" /\ MalformedLt(selected.text))
    /\ status = "thrown" => result = Unset

\* inside an element the text came to a "<" that opens nothing
C9_Witness ==
    /\ parsers = DefaultParsers
    /\ selected.level = "child"
    /\ MalformedLt(selected.text)
    /\ status = "thrown"
    /\ failure = "NoParser"
    /\ result = Unset
    /\ children[Doc] = <<>>

\* C10: once a parser has returned as remainder the text it was given, in
\* the document loop or in the child loop of an element, the call has
\* aborted with an error.
C10_NonConsumingAborts ==
    (returned.parser # "none" /\ returned.rest = returned.given) => status = "thrown"

\* rest is what is left of given after a non-empty prefix was taken off
IsProperSuffix(rest, given) ==
    /\ Len(rest) < Len(given)
    /\ rest = SubSeq(given, Len(given) - Len(rest) + 1, Len(given))

\* C11: with the default registry every parse call that returns leaves a
\* remainder that is a suffix of the text it was given and strictly shorter,
\* and Xml.parse comes to its end: while it runs its next step is possible
\* (the nodes of the model do not run out), and every step that leaves it
\* running shortens the remaining text, or keeps the text and ends an
\* Element.Parser.parse call in progress.
C11_ParseTerminates ==
    /\ [](parsers = DefaultParsers /\ status = "running" => alloc < MaxNodes)
    /\ [][ parsers = DefaultParsers =>
              /\ returned' # NoReturn => IsProperSuffix(returned'.rest, returned'.given)
              /\ status' = "running" =>
                    \/ Len(buffer') < Len(buffer)
                    \/ Len(buffer') = Len(buffer) /\ Len(stack') < Len(stack)
        ]_vars

\* an element with a child element was parsed to its closing tag and the
\* document was returned
C11_Witness ==
    /\ parsers = DefaultParsers
    /\ status = "returned"
    /\ result = Doc
    /\ returned.parser = "Element"
    /\ returned.level = "doc"
    /\ returned.rest = <<>>
    /\ children[returned.node] # <<>>
    /\ data[children[returned.node][1]].kind = "Element"

\* inputs whose only defect is a construct that is not terminated, or a
\* closing tag with another name than the opening tag
UnterminatedComment == CommentOpen \o Str(<<"a">>)
UnterminatedCData == CDataOpen \o Str(<<"a">>)
UnterminatedDeclaration == DeclarationOpen \o Str(<<"a">>)
UnterminatedTag == Str(<<"<", "a">>)
UnclosedElement == Str(<<"<", "a", ">", "a">>)
MismatchedClose == Str(<<"<", "a", ">", "<", "/", "b", ">">>)

TolerableInputs ==
    { UnterminatedComment, UnterminatedCData, UnterminatedDeclaration, UnterminatedTag,
      UnclosedElement, MismatchedClose }

\* C12: with the default registry Xml.parse throws no error on an input
\* whose only defect is an unterminated comment, CDATA section, declaration
\* or tag, or a closing tag with another name; it returns a tree.
C12_ToleratesUnterminated ==
    (parsers = DefaultParsers /\ source \in TolerableInputs) =>
        /\ status # "thrown"
        /\ status = "returned" => result = Doc /\ children[Doc] # <<>>

\* C13: when the child loop of an element stops at text that begins a
\* closing tag, the Element parser takes that tag off, whatever its name:
\* the remainder it returns is a strictly shorter suffix of the text at
\* which the loop stopped.
C13_ClosingTagConsumed ==
    [][ (status = "running" /\ stack # <<>> /\ AtClosingTag(buffer)) =>
            /\ returned'.parser = "Element"
            /\ returned'.node = stack[Len(stack)].node
            /\ IsProperSuffix(returned'.rest, buffer)
      ]_vars

\* the text of the source that begins at the place of node n and has the given length
SourceAt(n, len) == SubSeq(source, start[n] + 1, start[n] + len)

C15_TextParse ==
    (returned.parser = "Text" /\ returned.given # <<>> /\ ~StartsWith(returned.given, Lt)) =>
        LET content == data[returned.node].content
        IN  /\ data[returned.node].kind = "Text"
            /\ content \o returned.rest = returned.given
            /\ content # <<>>
            /\ \A i \in 1..Len(content) : content[i] # Ord("<")
            /\ returned.rest = <<>> \/ returned.rest[1] = Ord("<")

\* " <a" gave the content " " and the remainder "<a"
C15_Witness ==
    /\ returned.parser = "Text"
    /\ returned.given = Str(<<" ", "<", "a">>)
    /\ data[returned.node].content = Str(<<" ">>)
    /\ returned.rest = Str(<<"<", "a">>)

\* the places of t (counted from 0) at which pat occurs
OccurrencesOf(pat, t) ==
    {e \in 0..(Len(t) - Len(pat)) : SubSeq(t, e + 1, e + Len(pat)) = pat}

\* the least of a non-empty set of numbers
Least(set) == CHOOSE e \in set : \A f \in set : e <= f

\* t from the place after its first n characters
After(t, n) == SubSeq(t, n + 1, Len(t))

\* C16: for a text that starts with "<!--" the Comment parser returns a
\* Comment whose content is the unescaped text between the opening "<!--"
\* and the first "-->" after it, or up to the end of the text when there is
\* none, and as remainder the text after that "-->" (empty when there is none).
C16_CommentParse ==
    (returned.parser = "Comment" /\ StartsWith(returned.given, CommentOpen)) =>
        LET body == After(returned.given, 4)
            ends == OccurrencesOf(CommentClose, body)
        IN  /\ data[returned.node].kind = "Comment"
            /\ IF ends = {}
               THEN /\ data[returned.node].content = unescape(body)
                    /\ returned.rest = <<>>
               ELSE /\ data[returned.node].content = unescape(SubSeq(body, 1, Least(ends)))
                    /\ returned.rest = After(body, Least(ends) + 3)

\* "<!--&lt;-->" gave the content "<" and nothing as remainder
C16_Witness ==
    /\ returned.parser = "Comment"
    /\ returned.given = CommentOpen \o LtEntity \o CommentClose
    /\ data[returned.node].content = Lt
    /\ returned.rest = <<>>

\* C17: for a text that starts with "<![CDATA[" the CData parser returns a
\* CData node whose content is the text between the opening "<![CDATA[" and
\* the first "]]>" after it, or up to the end of the text when there is
\* none, as it is written and without the opening delimiter, and as
\* remainder the text after that "]]>".
C17_CDataParse ==
    (returned.parser = "CData" /\ StartsWith(returned.given, CDataOpen)) =>
        LET body == After(returned.given, 9)
            ends == OccurrencesOf(CDataClose, body)
        IN  /\ data[returned.node].kind = "CData"
            /\ IF ends = {}
               THEN /\ data[returned.node].content = body
                    /\ returned.rest = <<>>
               ELSE /\ data[returned.node].content = SubSeq(body, 1, Least(ends))
                    /\ returned.rest = After(body, Least(ends) + 3)

\* the pairs of the matches ms, a later value of a key replacing an earlier one
RECURSIVE PairsOf(_)
PairsOf(ms) ==
    IF ms = <<>> THEN NoAttrs
    ELSE Put(PairsOf(SubSeq(ms, 1, Len(ms) - 1)), ms[Len(ms)].key, unescape(ms[Len(ms)].value))

\* C18: for a text that starts with "<?" and holds "?>" the Declaration
\* parser returns a declaration whose type is the name at the start of the
\* text between "<?" and the first "?>" (when there is one), with one pair
\* for every key="value" in what follows the name, the value unescaped, and
\* as remainder the text after that "?>".
C18_DeclarationParse ==
    LET body    == After(selected.text, 2)
        ends    == OccurrencesOf(DeclarationClose, body)
        content == trim(SubSeq(body, 1, Least(ends)))
        name    == nameParser(content)
    IN  (selected.parser = "Declaration" /\ StartsWith(selected.text, DeclarationOpen)
            /\ ends # {}) =>
            /\ status = "returned"
            /\ returned.parser = "Declaration"
            /\ data[returned.node].kind = "Declaration"
            /\ name # <<>> => data[returned.node].type = name
            /\ data[returned.node].attrs = PairsOf(PairMatches(After(content, Len(name))))
            /\ returned.rest = After(body, Least(ends) + 2)

\* C19: for a text that starts with "<!" and is neither a comment nor a CDATA
\* section the Metadata parser returns a Metadata node whose type is the name
\* at the start of the text between "<!" and the first ">" (when there is
\* one), whose values are the quoted strings and whose names are the bare
\* tokens of what follows, each in source order, with the text after that
\* ">" as remainder.
C19_MetadataParse ==
    LET body    == After(selected.text, 2)
        ends    == OccurrencesOf(Str(<<">">>), body)
        content == IF ends = {} THEN body ELSE trim(SubSeq(body, 1, Least(ends)))
        name    == nameParser(content)
        tail    == trim(After(content, Len(name)))
    IN  (selected.parser = "Metadata" /\ StartsWith(selected.text, MetadataOpen)
            /\ ~StartsWith(selected.text, CommentOpen)
            /\ ~StartsWith(selected.text, CDataOpen)) =>
            /\ status = "returned"
            /\ returned.parser = "Metadata"
            /\ data[returned.node].kind = "Metadata"
            /\ name # <<>> => data[returned.node].type = name
            /\ data[returned.node].values = QuotedValues(tail)
            /\ data[returned.node].names = Tokens(StripQuoted(tail))
            /\ returned.rest = (IF ends = {} THEN <<>> ELSE After(body, Least(ends) + 1))

\* The attributes a tag may be written with: a bare token, or key="raw".
Bare(key) == [key |-> key, bare |-> TRUE, raw |-> <<>>]
Quoted(key, raw) == [key |-> key, bare |-> FALSE, raw |-> raw]
WrittenAttributes ==
    { Bare(Str(<<"a">>)), Bare(Str(<<"c">>)), Quoted(Str(<<"b">>), LtEntity),
      Quoted(Str(<<"c">>), Str(<<"1">>)) }
WrittenLists ==
    {<<>>} \cup { <<x>> : x \in WrittenAttributes }
           \cup { <<x, y>> : x, y \in WrittenAttributes }
TagClosers == { Str(<<">">>), Str(<<"/", ">">>) }

\* the text of one attribute, with the space in front of it
WrittenAs(x) ==
    Str(<<" ">>) \o x.key \o (IF x.bare THEN <<>> ELSE Str(<<"=">>) \o <<DQ>> \o x.raw \o <<DQ>>)

\* the opening tag <name attribute ... closer
RECURSIVE WrittenList(_)
WrittenList(list) ==
    IF list = <<>> THEN <<>> ELSE WrittenAs(list[1]) \o WrittenList(Tail(list))
WrittenTag(name, list, closer) == Lt \o name \o WrittenList(list) \o closer

\* the attributes of a tag written with list: one per distinct key, the last
\* occurrence of a key giving its value
RECURSIVE AttributesOf(_)
AttributesOf(list) ==
    IF list = <<>> THEN NoAttrs
    ELSE LET x == list[Len(list)]
         IN  Put(AttributesOf(SubSeq(list, 1, Len(list) - 1)), x.key,
                 IF x.bare THEN x.key ELSE unescape(x.raw))

\* C20: an element returned for a text that starts with the tag
\* <a attribute ... > or <a attribute ... /> has the type a and exactly one
\* attribute per distinct key of the tag, a key="value" attribute holding the
\* unescaped value and a bare token its own name; after a "/>" the element
\* has no children and the remainder is the text right after "/>".
C20_ElementAttributes ==
    returned.parser = "Element" =>
        \A list \in WrittenLists : \A closer \in TagClosers :
            LET tag == WrittenTag(Str(<<"a">>), list, closer)
            IN  StartsWith(returned.given, tag) =>
                    /\ data[returned.node].kind = "Element"
                    /\ data[returned.node].type = Str(<<"a">>)
                    /\ data[returned.node].attrs = AttributesOf(list)
                    /\ closer = Str(<<"/", ">">>) =>
                            /\ children[returned.node] = <<>>
                            /\ returned.rest = After(returned.given, Len(tag))

C20_Witness ==
    /\ returned.parser = "Element"
    /\ returned.given = TagWithAttributes \o Str(<<"/", ">">>)
    /\ data[returned.node].attrs =
           AttributesOf(<<Quoted(Str(<<"b">>), LtEntity), Bare(Str(<<"c">>))>>)
    /\ Get(data[returned.node].attrs, Str(<<"b">>)) = Lt
    /\ Get(data[returned.node].attrs, Str(<<"c">>)) = Str(<<"c">>)
    /\ children[returned.node] = <<>>
    /\ returned.rest = <<>>

EndsWith(s, t) == Len(s) >= Len(t) /\ SubSeq(s, Len(s) - Len(t) + 1, Len(s)) = t

\* C21: when a parsed document is serialized, an element without children
\* gives a text that ends in "/>" and holds no closing tag, and an element
\* with children gives its open tag, the texts of its children in child
\* order, then "</type>"; the document parsed from "<a></a>" gives "<a />".
C21_FormByChildCount ==
    call = "toString" =>
        /\ \A n \in 2..alloc :
              data[n].kind = "Element" =>
                  LET s     == toString(children, data, n)
                      close == Str(<<"<", "/">>) \o data[n].type \o Str(<<">">>)
                      inner == Concat([i \in 1..Len(children[n]) |->
                                          toString(children, data, children[n][i])])
                      open  == SubSeq(s, 1, Len(s) - Len(inner) - Len(close))
                  IN  IF children[n] = <<>>
                      THEN /\ EndsWith(s, Str(<<"/", ">">>))
                           /\ OccurrencesOf(Str(<<"<", "/">>), s) = {}
                      ELSE /\ s = open \o inner \o close
                           /\ StartsWith(open, Lt \o data[n].type)
                           /\ EndsWith(open, Str(<<">">>))
                           /\ ~EndsWith(open, Str(<<"/", ">">>))
        /\ source = Str(<<"<", "a", ">", "<", "/", "a", ">">>) => esc = Str(<<"<", "a", " ", "/", ">">>)

C21_Witness ==
    /\ call = "toString"
    /\ source = Str(<<"<", "a", ">", "<", "/", "a", ">">>)
    /\ data[2].kind = "Element"
    /\ children[2] = <<>>
    /\ esc = Str(<<"<", "a", " ", "/", ">">>)

\* C22: an assignment of an invalid name to a name-like field (a type, an
\* attribute or pair key, a metadata name token) raises the invalid-name error
\* and leaves the node as it was; an assignment of a valid name stores it.
C22_SettersValidate ==
    [][ call' \in {"setType", "setEntry", "setName", "pushName"} =>
            IF ~validateName(arg').ok
            THEN /\ ret' = Thrown(UnparsableName)
                 /\ data' = data
            ELSE /\ ret'.ok
                 /\ call' = "setType" => data'[1].type = arg'.v
                 /\ call' = "setEntry" =>
                        /\ Has(data'[1].attrs, arg'.v)
                        /\ Get(data'[1].attrs, arg'.v) = esc'
                 /\ call' \in {"setName", "pushName"} =>
                        \E i \in 1..Len(data'[1].names) : data'[1].names[i] = arg'.v
      ]_vars

\* C23: a finished call of resolve(name) has the value null when name has no
\* entry or its factory is not a function; otherwise it started one call of
\* resolve for every declared dependency, in declared order, gave its factory
\* the array of their values (null for a missing one) and has the value the
\* factory returned, an object of that name.
C23_Resolve ==
    \A f \in 1..Len(frames) :
        LET entry == config[frames[f].name]
            a     == Awaited(frames, f, 1)
        IN  /\ ~Callable(entry) => frames[f].pc = "done" /\ frames[f].result = Null /\ a = <<>>
            /\ Callable(entry) =>
                  /\ Len(a) = Len(entry.dependencies)
                  /\ \A i \in 1..Len(a) : frames[a[i]].name = entry.dependencies[i]
                  /\ frames[f].pc = "done" =>
                        /\ frames[f].given = [i \in 1..Len(a) |-> frames[a[i]].result]
                        /\ \A i \in 1..Len(a) :
                              ~Callable(config[entry.dependencies[i]]) => frames[f].given[i] = Null
                        /\ frames[f].result # Null
                        /\ objects[frames[f].result].name = frames[f].name
                        /\ entry.factory = "plain" =>
                              /\ objects[frames[f].result] =
                                     [name |-> frames[f].name, given |-> frames[f].given, by |-> f]
                              /\ Cardinality({o \in 1..Len(objects) : objects[o].by = f}) = 1

C23_Witness ==
    /\ config["C"] = Entry("plain", <<"B", "A">>)
    /\ config["B"] = Entry("plain", <<"M", "A">>)
    /\ config["A"] = Entry("plain", <<>>)
    /\ Len(frames) = 5
    /\ frames[1].name = "C"
    /\ frames[1].pc = "done"
    /\ frames[1].given = <<frames[2].result, frames[5].result>>
    /\ frames[2].given = <<Null, frames[4].result>>
    /\ frames[4].result # frames[5].result
    /\ objects[frames[1].result].name = "C"

\* C24: the factory wrapped by toSingleton is called at most once for a
\* name, and every finished call of resolve for that name has the same
\* instance.
C24_SingletonOnce ==
    \A n \in TypeNames :
        (config # <<>> /\ config[n].factory = "singleton") =>
            /\ Cardinality({o \in 1..Len(objects) : objects[o].name = n}) <= 1
            /\ \A f, g \in 1..Len(frames) :
                  (frames[f].name = n /\ frames[g].name = n
                      /\ frames[f].pc = "done" /\ frames[g].pc = "done")
                  => frames[f].result = frames[g].result

\* the character with the code point n, as UTF-16
Utf16(n) ==
    IF n < 65536 THEN <<n>>
    ELSE <<55296 + ((n - 65536) \div 1024), 56320 + ((n - 65536) % 1024)>>

\* the digits of n in the base, most significant first
RECURSIVE NumberText(_, _)
NumberText(n, base) ==
    LET d == n % base
        c == IF d < 10 THEN 48 + d ELSE 55 + d
    IN  IF n < base THEN <<c>> ELSE Append(NumberText(n \div base, base), c)

ReferenceValues == {65, 38, 65601}

\* C25: unescape takes &#N; and &#xH; to the character whose code point is N
\* (resp. H), also above 0xFFFF.
C25_ReferenceIsCodePoint ==
    call = "unescape" =>
        \A n \in ReferenceValues :
            /\ arg.v = DecPrefix \o NumberText(n, 10) \o Str(<<";">>)
                  => ret = Returned(StringValue(Utf16(n)))
            /\ arg.v = HexPrefix \o NumberText(n, 16) \o Str(<<";">>)
                  => ret = Returned(StringValue(Utf16(n)))

\* The entity at the start of s: [len |-> its length (0: none), char |-> what
\* it stands for].
EntityAt(s) ==
    LET dec == IF StartsWith(s, DecPrefix) THEN SpanLen(SliceFrom(s, 2), Digits) ELSE 0
        hex == IF StartsWith(s, HexPrefix) THEN SpanLen(SliceFrom(s, 3), HexDigits) ELSE 0
    IN  IF StartsWith(s, LtEntity) THEN [len |-> 4, char |-> Lt]
        ELSE IF StartsWith(s, GtEntity) THEN [len |-> 4, char |-> Str(<<">">>)]
        ELSE IF StartsWith(s, QuotEntity) THEN [len |-> 6, char |-> <<DQ>>]
        ELSE IF StartsWith(s, AposEntity) THEN [len |-> 6, char |-> <<APOS>>]
        ELSE IF StartsWith(s, AmpEntity) THEN [len |-> 5, char |-> Str(<<"&">>)]
        ELSE IF dec > 0 /\ Len(s) > 2 + dec /\ s[3 + dec] = Ord(";")
        THEN [len |-> 3 + dec, char |-> Utf16(DigitsValue(SubSeq(s, 3, 2 + dec), 10))]
        ELSE IF hex > 0 /\ Len(s) > 3 + hex /\ s[4 + hex] = Ord(";")
        THEN [len |-> 4 + hex, char |-> Utf16(DigitsValue(SubSeq(s, 4, 3 + hex), 16))]
        ELSE [len |-> 0, char |-> <<>>]

\* s with each of its entities decoded once, from left to right
RECURSIVE DecodeOnce(_)
DecodeOnce(s) ==
    IF s = <<>> THEN <<>>
    ELSE IF EntityAt(s).len > 0
    THEN EntityAt(s).char \o DecodeOnce(SliceFrom(s, EntityAt(s).len))
    ELSE <<s[1]>> \o DecodeOnce(Tail(s))

\* C26: unescape decodes every entity of its text once; what a replacement
\* produced is not decoded again together with the text that follows it
\* (texts whose references are all below 0x10000).
C26_DecodesOnce ==
    (call = "unescape" /\ arg.t = "string"
        /\ OccurrencesOf(HighDecRef, arg.v) = {} /\ OccurrencesOf(HighHexRef, arg.v) = {})
    => ret = Returned(StringValue(DecodeOnce(arg.v)))

\* the place of the first ">" of s that is outside "..." (0: none), counted
\* from at, with quoted telling whether a quote is open
RECURSIVE UnquotedGt(_, _, _)
UnquotedGt(s, at, quoted) ==
    IF at > Len(s) THEN 0
    ELSE IF s[at] = DQ THEN UnquotedGt(s, at + 1, ~quoted)
    ELSE IF s[at] = Ord(">") /\ ~quoted THEN at
    ELSE UnquotedGt(s, at + 1, quoted)

\* C27: for a text "<!..." whose first ">" lies inside a double-quoted
\* string, the Metadata parser ends the construct at the first ">" outside
\* the quotes: the quoted ">" stays in its value and the remainder is the
\* text after the unquoted ">".
C27_MetadataEndsAtUnquotedGt ==
    LET body == After(selected.text, 2)
        end  == UnquotedGt(body, 1, FALSE)
    IN  (selected.parser = "Metadata" /\ StartsWith(selected.text, MetadataOpen)
            /\ ~StartsWith(selected.text, CommentOpen)
            /\ ~StartsWith(selected.text, CDataOpen)
            /\ end > 0 /\ Least(OccurrencesOf(Str(<<">">>), body)) + 1 < end) =>
            /\ status = "returned"
            /\ returned.rest = After(body, end)
            /\ \E i \in 1..Len(data[returned.node].values) :
                  OccurrencesOf(Str(<<">">>), data[returned.node].values[i]) # {}

\* C28: the text of a CData node holds "]]>" only as its last three
\* characters, so the CData parser takes all of it and leaves no remainder;
\* when the content holds no "]]>" the parsed content is the content.
C28_CDataTextClosesOnce ==
    /\ call \in {"CData.toString", "CData.toString;CData.parse"} =>
          OccurrencesOf(CDataClose, esc) = {Len(esc) - 3}
    /\ call = "CData.toString;CData.parse" =>
          /\ returned.given = esc
          /\ returned.rest = <<>>
          /\ data[returned.node].kind = "CData"
          /\ OccurrencesOf(CDataClose, arg.v) = {} => data[returned.node].content = arg.v

C28_Witness ==
    /\ call = "CData.toString;CData.parse"
    /\ arg.v = Str(<<"]">>) \o CDataClose \o Str(<<"]">>)
    /\ esc = CDataOpen \o Str(<<"]", "]", "]">>) \o GtEntity \o Str(<<"]">>) \o CDataClose
    /\ returned.rest = <<>>

\* C29: for a Text node with a content that is not empty, parsing the text
\* of the node gives a document with exactly one child, a Text with that
\* content.
C29_TextRoundTrip ==
    (call = "Text.toString;Xml.parse" /\ arg.v # <<>> /\ status # "running") =>
        /\ status = "returned"
        /\ Len(children[Doc]) = 1
        /\ data[children[Doc][1]].kind = "Text"
        /\ data[children[Doc][1]].content = arg.v

\* C30: in a tree that Xml.parse returned with the default parsers no Text
\* node has an empty content and no node has two Text children next to each
\* other.
C30_TextRunsAreWhole ==
    (parsers = DefaultParsers /\ status = "returned" /\ result = Doc) =>
        \A n \in 1..alloc :
            /\ data[n].kind = "Text" => data[n].content # <<>>
            /\ \A i \in 1..(Len(children[n]) - 1) :
                  ~(data[children[n][i]].kind = "Text" /\ data[children[n][i + 1]].kind = "Text")

C30_Witness ==
    /\ parsers = DefaultParsers
    /\ status = "returned"
    /\ source = Str(<<"a", "a", "<", "a", "/", ">">>)
    /\ Len(children[Doc]) = 2
    /\ data[children[Doc][1]].kind = "Text"
    /\ data[children[Doc][1]].content = Str(<<"a", "a">>)
    /\ data[children[Doc][2]].kind = "Element"

====
